---- MODULE Spec2Model ----
(***************************************************************************)
(* Model of the sandboxed algorithm-execution platform:                    *)
(*   - EnhancedWebSocketServer (websocket/enhanced_server.py): the session *)
(*     gateway, a single asyncio event loop with one task per client;      *)
(*   - DockerExecutor (execution/docker_executor.py): one container per    *)
(*     call of execute_algorithm, tracked in active_containers;            *)
(*   - TestFramework.run_test_suite (testing/test_framework.py);           *)
(*   - PerformanceAnalytics.add_performance_point                          *)
(*     (analytics/performance_analytics.py).                               *)
(*                                                                         *)
(* Scheduling.  Every handler is a coroutine on the one event-loop thread. *)
(* Code between two `await`s runs without interruption; the only `await`s  *)
(* in the handlers are `await websocket.send(...)`.  The Docker calls      *)
(* (containers.run, container.wait, container.stop, ...) are ordinary      *)
(* blocking calls made on the event-loop thread.  The variable `loop`      *)
(* names the client task that currently occupies the thread inside such a  *)
(* synchronous section; no other task can take a step until it is          *)
(* released at the next `await`.  Clients themselves (sending a frame,     *)
(* dropping the connection) are not bound by the loop.                     *)
(*                                                                         *)
(* Docker.  containers.run either returns a running container or raises    *)
(* with no container left behind; stop/remove succeed on an existing       *)
(* container and raise (404) on one that was already removed.              *)
(***************************************************************************)
EXTENDS Integers, Sequences, FiniteSets, TLC

(***************************************************************************)
(* Bounds of the model                                                     *)
(***************************************************************************)
\* inbound frames all clients together may send
MaxMsgs == 2
\* frames sent when one request is followed by STOP_EXECUTION frames
MaxStopFrames == 3
\* benchmark input sizes per PERFORMANCE_BENCHMARK request (the source runs 5)
NumSizes == 2
\* PerformanceAnalytics(max_history=...): retained points (the default is 1000)
max_history == 2
\* add_performance_point calls in the analytics specification
MaxAdds == 4
\* callbacks subscribed at one time
MaxSubscribers == 3

Clients == {"c1", "c2"}
SessionIds == {"s1", "s2"}
\* algorithmCode of a request: a text without a finding of the security
\* validator and a text that calls a blocked function
OkCode == "return x"
BadCode == "return eval(x)"
Codes == {OkCode, BadCode}
Algorithms == {"two_sum", "binary_search"}

NoClient == "none"
NoSession == [client_id |-> "none", type |-> "none"]
NoKey == <<"none", -1>>

RequestTypes == {"EXECUTE_ALGORITHM", "PERFORMANCE_BENCHMARK", "RUN_TESTS"}

\* inbound frames: the three request kinds carry code; STOP_EXECUTION only an id
Messages ==
    [type : RequestTypes, sessionId : SessionIds, code : Codes]
      \cup [type : {"STOP_EXECUTION"}, sessionId : SessionIds, code : {OkCode}]

VARIABLES
    conn,               \* client -> "none" | "open" | "closed": its socket
    clients,            \* self.clients
    active_sessions,    \* self.active_sessions: session id -> record
    active_containers,  \* DockerExecutor.active_containers: key -> container id
    docker,             \* containers that exist in the Docker daemon
    tempdirs,           \* scratch directories that exist on disk
    retorn,             \* containers whose teardown was attempted again
    inbox,              \* client -> frames sent and not yet read by its task
    nsent,              \* frames sent so far by all clients
    pc,                 \* client -> position of its task
    frame,              \* client -> locals of the handler in progress
    loop,               \* the task inside a synchronous section, or NoClient
    call,               \* locals of the execute_algorithm / run_test_suite call
    outbox,             \* client -> messages sent to it for its current request
    status,             \* client -> lifecycle of the session of its request
    stopped,            \* session ids stopped and not requested again since
    lastStop,           \* the stop_execution calls of the step just taken
    up,                 \* FALSE once _shutdown has exited the process
    performance_history,\* PerformanceAnalytics.performance_history (deque)
    algorithm_trends,   \* PerformanceAnalytics.algorithm_trends
    added,              \* every point ever passed to add_performance_point
    subscribers,        \* PerformanceAnalytics.subscribers
    running,            \* PerformanceAnalytics.running
    analytics_thread,   \* PerformanceAnalytics.analytics_thread
    tpc,                \* position of the thread that runs _analytics_loop
    stopping,           \* a caller is inside stop_analytics, in join()
    stop_returned,      \* a stop_analytics call has returned since the start
    lastNotify,         \* the _notify_subscribers call of the step just taken
    args,               \* arguments of the function call under study
    result,             \* what that call returned
    local               \* locals and surroundings of a run_test_suite call

vars == <<conn, clients, active_sessions, active_containers, docker, tempdirs,
          retorn, inbox, nsent, pc, frame, loop, call, outbox,
          status, stopped, lastStop, up, performance_history,
          algorithm_trends, added, subscribers, running, analytics_thread,
          tpc, stopping, stop_returned, lastNotify, args, result, local>>

gatewayVars == <<conn, clients, active_sessions, active_containers, docker,
                 tempdirs, retorn, inbox, nsent, pc, frame, loop,
                 call, outbox, status, stopped, lastStop, up>>

analyticsVars == <<performance_history, algorithm_trends, added>>

execVars == <<active_containers, docker, tempdirs, retorn, call>>

\* the analytics engine's thread and subscribers
engineVars == <<subscribers, running, analytics_thread, tpc, stopping,
                stop_returned, lastNotify>>

\* a single function call
callVars == <<args, result, local>>

\* what the gateway's steps leave alone
otherVars == <<engineVars, callVars>>

\* the gateway's own variables, apart from the call in progress
gatewayVarsNoExec == <<conn, clients, active_sessions, inbox, nsent, pc, frame,
                       loop, outbox, status, stopped, up>>

(***************************************************************************)
(* SecurityManager.validate_code_security, on the text of the code         *)
(***************************************************************************)
\* self.config.blocked_functions
blocked_functions ==
    <<"eval", "exec", "compile", "__import__", "open", "file",
      "input", "raw_input", "exit", "quit", "reload">>

\* self.config.allowed_imports
allowed_imports ==
    <<"math", "json", "time", "random", "itertools", "functools",
      "collections", "heapq", "bisect", "typing", "dataclasses">>

suspicious_patterns ==
    <<"subprocess", "os.system", "os.popen", "os.exec",
      "import os", "import sys", "import subprocess",
      "__builtins__", "__globals__", "__locals__",
      "globals()", "locals()", "vars()",
      "setattr", "getattr", "hasattr", "delattr">>

file_operations == <<"open(", "file(", "with open", "read(", "write(">>

\* SecurityConfig(): file_system_access is False unless the policy enables it
DefaultConfig == [file_system_access |-> FALSE]

Elements(l) == {l[k] : k \in 1..Len(l)}

\* the text starts with the pattern
contains_at_start(code, pattern) ==
    Len(code) >= Len(pattern) /\ SubSeq(code, 1, Len(pattern)) = pattern

\* pattern in code
contains(code, pattern) ==
    \E i \in 1..(Len(code) - Len(pattern) + 1) :
        SubSeq(code, i, i + Len(pattern) - 1) = pattern

\* s.startswith(prefix)
startswith(s, prefix) ==
    Len(s) >= Len(prefix) /\ SubSeq(s, 1, Len(prefix)) = prefix

\* s[n:]
from_index(s, n) == SubSeq(s, n + 1, Len(s))

\* the position of the first character of s that is in chars, or 0
first_of(s, chars) ==
    IF \E i \in 1..Len(s) : SubSeq(s, i, i) \in chars
    THEN CHOOSE i \in 1..Len(s) :
            /\ SubSeq(s, i, i) \in chars
            /\ \A j \in 1..(i - 1) : SubSeq(s, j, j) \notin chars
    ELSE 0

\* s.split(sep) for a separator of one character
RECURSIVE split(_, _)
split(s, sep) ==
    LET i == first_of(s, {sep}) IN
      IF i = 0 THEN <<s>>
      ELSE <<SubSeq(s, 1, i - 1)>> \o split(from_index(s, i), sep)

Whitespace == {" ", "\t", "\r"}

RECURSIVE lstrip(_)
lstrip(s) ==
    IF s # "" /\ SubSeq(s, 1, 1) \in Whitespace
    THEN lstrip(from_index(s, 1)) ELSE s

RECURSIVE rstrip(_)
rstrip(s) ==
    IF s # "" /\ SubSeq(s, Len(s), Len(s)) \in Whitespace
    THEN rstrip(SubSeq(s, 1, Len(s) - 1)) ELSE s

\* s.strip()
strip(s) == lstrip(rstrip(s))

\* s.split()[0], or "" where s.split() is empty and the index raises
first_word(s) ==
    LET t == lstrip(s)
        i == first_of(t, Whitespace)
    IN IF i = 0 THEN t ELSE SubSeq(t, 1, i - 1)

\* _extract_module_name; "" stands for None
extract_module_name(import_line) ==
    IF startswith(import_line, "import ")
    THEN split(first_word(from_index(import_line, 7)), ".")[1]
    ELSE IF startswith(import_line, "from ")
    THEN split(first_word(from_index(import_line, 5)), ".")[1]
    ELSE ""

\* the stripped lines that start with import or from
import_lines(code) ==
    LET lines == split(code, "\n")
        stripped == [k \in 1..Len(lines) |-> strip(lines[k])]
    IN SelectSeq(stripped,
                 LAMBDA l : startswith(l, "import") \/ startswith(l, "from"))

Prefixed(prefix, l) == [k \in 1..Len(l) |-> prefix \o l[k]]

\* the report validate_code_security starts from
EmptyReport == [safe |-> TRUE, warnings |-> <<>>, blocked_items |-> <<>>,
                risk_level |-> "LOW"]

\* a warning that sets MEDIUM whatever the level was
set_medium(level) == "MEDIUM"

\* if security_report['risk_level'] == 'LOW': ... = 'MEDIUM'
raise_to_medium(level) == IF level = "LOW" THEN "MEDIUM" ELSE level

\* a file-operation scan that blocks whatever the policy says
scan_files_always(config, code, r) ==
    LET ops == SelectSeq(file_operations, LAMBDA o : contains(code, o))
    IN [r EXCEPT
          !.safe = @ /\ ops = <<>>,
          !.blocked_items = @ \o Prefixed("File operation: ", ops),
          !.risk_level = IF ops # <<>> THEN "HIGH" ELSE @]

\* the scan for file operations, which blocks unless
\* self.config.file_system_access
scan_files(config, code, r) ==
    LET ops == IF config.file_system_access THEN <<>>
               ELSE SelectSeq(file_operations, LAMBDA o : contains(code, o))
    IN [r EXCEPT
          !.safe = @ /\ ops = <<>>,
          !.blocked_items = @ \o Prefixed("File operation: ", ops),
          !.risk_level = IF ops # <<>> THEN "HIGH" ELSE @]

\* one of the four scans of validate_code_security, applied to the report r
scan(name, config, code, r) ==
    CASE name = "blocked" ->
           LET blocked == SelectSeq(blocked_functions,
                                    LAMBDA f : contains(code, f))
           IN [r EXCEPT
                 !.safe = @ /\ blocked = <<>>,
                 !.blocked_items = @ \o Prefixed("Blocked function: ", blocked),
                 !.risk_level = IF blocked # <<>> THEN "HIGH" ELSE @]
      [] name = "suspicious" ->
           LET suspicious == SelectSeq(suspicious_patterns,
                                       LAMBDA q : contains(code, q))
           IN [r EXCEPT
                 !.warnings = @ \o Prefixed("Suspicious pattern: ", suspicious),
                 !.risk_level = IF suspicious # <<>>
                                THEN raise_to_medium(@) ELSE @]
      [] name = "imports" ->
           LET lines == import_lines(code)
               modules == [k \in 1..Len(lines) |->
                              extract_module_name(lines[k])]
               unauthorized ==
                   SelectSeq(modules,
                             LAMBDA m : m # ""
                                 /\ m \notin Elements(allowed_imports))
           IN [r EXCEPT
                 !.warnings = @ \o Prefixed("Unauthorized import: ",
                                            unauthorized),
                 !.risk_level = IF unauthorized # <<>>
                                THEN raise_to_medium(@) ELSE @]
      [] name = "files" -> scan_files(config, code, r)

\* the order in which validate_code_security runs its scans
ScanOrder == <<"blocked", "suspicious", "imports", "files">>

\* the reports after each of the scans named by order, the starting report
\* first
RECURSIVE scan_trace(_, _, _, _)
scan_trace(order, config, code, r) ==
    IF order = <<>> THEN <<r>>
    ELSE <<r>> \o scan_trace(Tail(order), config, code,
                             scan(order[1], config, code, r))

\* validate_code_security under a policy
validate_with(config, code) ==
    LET t == scan_trace(ScanOrder, config, code, EmptyReport) IN t[Len(t)]

\* validate_code_security of a SecurityManager() with the default policy
validate_code_security(code) == validate_with(DefaultConfig, code)

\* the most lines of a code text handed to the validator
MaxLines == 2

\* a line that calls one blocked function and has no other finding to it
CallLines ==
    {[text |-> "v = " \o f \o "(x)", calls |-> {f}, imports |-> {}] :
        f \in Elements(blocked_functions)}

\* lines that call no blocked function, with the modules they import
OtherLines ==
    {[text |-> "return x", calls |-> {}, imports |-> {}],
     [text |-> "input_size = len(nums)", calls |-> {}, imports |-> {}],
     [text |-> "# evaluate the result", calls |-> {}, imports |-> {}],
     [text |-> "s = 'exit'", calls |-> {}, imports |-> {}],
     [text |-> "n = getattr(o, 'k')", calls |-> {}, imports |-> {}],
     [text |-> "important = 1", calls |-> {}, imports |-> {}],
     [text |-> "import math", calls |-> {}, imports |-> {"math"}],
     [text |-> "  import math as m", calls |-> {}, imports |-> {"math"}],
     [text |-> "import heapq, bisect", calls |-> {},
      imports |-> {"heapq", "bisect"}],
     [text |-> "from collections import deque", calls |-> {},
      imports |-> {"collections"}],
     [text |-> "import collections.abc", calls |-> {},
      imports |-> {"collections"}],
     [text |-> "import socket", calls |-> {}, imports |-> {"socket"}],
     [text |-> "data = f.read()", calls |-> {}, imports |-> {}],
     [text |-> "f.write(s)", calls |-> {}, imports |-> {}]}

\* '\n'.join of the texts of the lines
RECURSIVE join(_)
join(lines) ==
    IF Len(lines) = 1 THEN lines[1].text
    ELSE lines[1].text \o "\n" \o join(Tail(lines))

Programs == UNION {[1..n -> CallLines \cup OtherLines] : n \in 1..MaxLines}

(***************************************************************************)
(* Docker daemon and DockerExecutor bookkeeping                            *)
(***************************************************************************)
\* the key under which execute_algorithm tracks its container: the session id
\* for EXECUTE_ALGORITHM, f"{session_id}_{i}" for benchmark size i
PlainKey(sid) == <<sid, -1>>
BenchKey(sid, i) == <<sid, i>>

Live(cid) == \E k \in docker : k.id = cid

NoCall == [phase |-> "none", owner |-> NoClient, id |-> 0, key |-> NoKey,
           code |-> OkCode, temp_dir |-> 0, container |-> 0, result |-> "none"]

NoFrame == [sid |-> "none", code |-> OkCode, i |-> 0, any |-> FALSE,
            success |-> FALSE]

NoStop == [op |-> "none", sid |-> "none", by |-> NoClient, found |-> FALSE,
           running |-> FALSE, repeat |-> FALSE, success |-> FALSE,
           keys |-> {}]

Terminal == {"completed", "failed", "stopped"}

NoNotify == [event |-> "none", subs |-> <<>>, called |-> <<>>,
             raised |-> {}, escaped |-> FALSE, by |-> "none"]

\* container.stop(timeout=5); container.remove(): the daemon after the pair
docker_remove(dk, cid) == {k \in dk : k.id # cid}

\* container.stop() on container cid: a second teardown of a container that
\* was removed before is recorded
count_teardown(rt, dk, cid) ==
    IF cid \in {k.id : k \in dk} THEN rt ELSE rt \cup {cid}

\* del d[key]
del_key(d, key) == [k \in DOMAIN d \ {key} |-> d[k]]

\* DockerExecutor.stop_execution on the executor state
\* w = [ac |-> active_containers, dk |-> docker, rt |-> retorn]:
\* a tracked container is stopped, removed and untracked (True); when
\* stop()/remove() raises (the container is gone already) the entry stays and
\* the result is False; an untracked key gives False
stop_execution(w, key) ==
    IF key \in DOMAIN w.ac
    THEN IF w.ac[key] \in {k.id : k \in w.dk}
         THEN [ac |-> del_key(w.ac, key),
               dk |-> docker_remove(w.dk, w.ac[key]),
               rt |-> count_teardown(w.rt, w.dk, w.ac[key]),
               ret |-> TRUE]
         ELSE [ac |-> w.ac, dk |-> w.dk,
               rt |-> count_teardown(w.rt, w.dk, w.ac[key]), ret |-> FALSE]
    ELSE [ac |-> w.ac, dk |-> w.dk, rt |-> w.rt, ret |-> FALSE]

\* stop_execution for every key of a set, one after the other
RECURSIVE stop_all(_, _)
stop_all(w, keys) ==
    IF keys = {} THEN w
    ELSE LET key == CHOOSE k \in keys : TRUE
         IN stop_all(stop_execution(w, key), keys \ {key})

\* DockerExecutor.cleanup_all
cleanup_all(w) == stop_all(w, DOMAIN w.ac)

World == [ac |-> active_containers, dk |-> docker, rt |-> retorn,
          ret |-> FALSE]

(***************************************************************************)
(* PerformanceAnalytics.add_performance_point                              *)
(***************************************************************************)
\* an append that never evicts
deque_append_unbounded(h, p) == Append(h, p)

\* deque(maxlen=max_history).append: a full deque drops its oldest element
deque_append(h, p) ==
    IF Len(h) >= max_history THEN Tail(h) \o <<p>> ELSE Append(h, p)

\* the slice l[:n]: the first n elements
first_slice(l, n) == SubSeq(l, 1, n)

\* the slice l[-n:] of Python: the last n elements, and all of l for n = 0
last_slice(l, n) ==
    IF n = 0 THEN l ELSE SubSeq(l, Len(l) - n + 1, Len(l))

\* the per-algorithm list: created on first use, appended to, then cut to its
\* last max_history elements
trends_append(tr, p) ==
    LET old == IF p.algorithm_name \in DOMAIN tr
               THEN tr[p.algorithm_name] ELSE <<>>
        l == Append(old, p)
        cut == IF Len(l) > max_history
               THEN last_slice(l, max_history) ELSE l
    IN [a \in DOMAIN tr \cup {p.algorithm_name} |->
          IF a = p.algorithm_name THEN cut ELSE tr[a]]

add_performance_point(point) ==
    /\ performance_history' = deque_append(performance_history, point)
    /\ algorithm_trends' = trends_append(algorithm_trends, point)

(***************************************************************************)
(* Initial state: the server constructed, no client connected              *)
(***************************************************************************)
InitGateway ==
    /\ conn = [c \in Clients |-> "none"]
    /\ clients = {}
    /\ active_sessions = [s \in SessionIds |-> NoSession]
    /\ active_containers = <<>>
    /\ docker = {}
    /\ tempdirs = {}
    /\ retorn = {}
    /\ inbox = [c \in Clients |-> <<>>]
    /\ nsent = 0
    /\ pc = [c \in Clients |-> "init"]
    /\ frame = [c \in Clients |-> NoFrame]
    /\ loop = NoClient
    /\ call = NoCall
    /\ outbox = [c \in Clients |-> <<>>]
    /\ status = [c \in Clients |-> "none"]
    /\ stopped = {}
    /\ lastStop = NoStop
    /\ up = TRUE
    /\ performance_history = <<>>
    /\ algorithm_trends = <<>>
    /\ added = <<>>

\* PerformanceAnalytics.__init__: no subscriber, no thread
InitEngine ==
    /\ subscribers = <<>>
    /\ running = FALSE
    /\ analytics_thread = "none"
    /\ tpc = "none"
    /\ stopping = FALSE
    /\ stop_returned = FALSE
    /\ lastNotify = NoNotify

\* no function call under study
InitCall ==
    /\ args = <<>>
    /\ result = <<>>
    /\ local = <<>>

Init == InitGateway /\ InitEngine /\ InitCall

(***************************************************************************)
(* Clients                                                                 *)
(***************************************************************************)
\* a client opens a connection: handle_client starts, register_client adds it
register_client(c) ==
    /\ up /\ loop = NoClient
    /\ conn[c] = "none"
    /\ conn' = [conn EXCEPT ![c] = "open"]
    /\ clients' = clients \cup {c}
    /\ pc' = [pc EXCEPT ![c] = "idle"]
    /\ outbox' = [outbox EXCEPT ![c] = <<[type |-> "SERVER_WELCOME",
                                          sessionId |-> "none",
                                          detail |-> ""]>>]
    /\ UNCHANGED <<active_sessions, inbox, nsent, frame, loop, status,
                   stopped, up, execVars, analyticsVars>>
    /\ lastStop' = NoStop
    /\ UNCHANGED otherVars

\* a connected client sends a frame once its previous one has been read; the
\* frame waits in the socket until the client's task reads it
ClientSend(c, m) ==
    /\ up
    /\ conn[c] = "open"
    /\ nsent < MaxMsgs
    /\ inbox[c] = <<>>
    /\ inbox' = [inbox EXCEPT ![c] = Append(@, m)]
    /\ nsent' = nsent + 1
    /\ UNCHANGED <<conn, clients, active_sessions, pc, frame, loop, outbox,
                   status, stopped, up, execVars, analyticsVars>>
    /\ lastStop' = NoStop
    /\ UNCHANGED otherVars

\* the same, for clients that send one request and then STOP_EXECUTION frames
ClientSendStop(c, m) ==
    /\ up
    /\ conn[c] = "open"
    /\ nsent < MaxStopFrames
    /\ (m.type = "STOP_EXECUTION") = (nsent > 0)
    /\ inbox[c] = <<>>
    /\ inbox' = [inbox EXCEPT ![c] = Append(@, m)]
    /\ nsent' = nsent + 1
    /\ UNCHANGED <<conn, clients, active_sessions, pc, frame, loop, outbox,
                   status, stopped, up, execVars, analyticsVars>>
    /\ lastStop' = NoStop
    /\ UNCHANGED otherVars

\* a client drops its connection; every later send to it raises
ClientDisconnect(c) ==
    /\ up
    /\ conn[c] = "open"
    /\ conn' = [conn EXCEPT ![c] = "closed"]
    /\ UNCHANGED <<clients, active_sessions, inbox, nsent, pc, frame, loop,
                   outbox, status, stopped, up, execVars, analyticsVars>>
    /\ lastStop' = NoStop
    /\ UNCHANGED otherVars

Msg(t, sid, d) == [type |-> t, sessionId |-> sid, detail |-> d]

\* a send that overtakes the messages sent before it
send_overtaking(box, msg) == <<msg>> \o box

\* await websocket.send(json.dumps(msg)) on an open connection: the message
\* follows those sent before it
send(box, msg) == Append(box, msg)

\* the task of client c may run: the event-loop thread is free, or c holds it
CanRun(c) == up /\ (loop = NoClient \/ loop = c)

(***************************************************************************)
(* DockerExecutor.execute_algorithm, a blocking call on the event loop     *)
(***************************************************************************)
\* what _monitor_execution can come to once the container runs
MonitorOutcomes == {"success", "algo_error", "parse_fail", "bad_payload",
                    "timeout", "container_error"}

\* ExecutionResult.success of each way execute_algorithm returns
Success(kind) == kind = "success"

\* the identity of the next container and scratch directory: one that nothing
\* existing or tracked bears
UsedIds == {k.id : k \in docker} \cup tempdirs \cup retorn
              \cup {active_containers[k] : k \in DOMAIN active_containers}
FreshId == CHOOSE i \in 1..(Cardinality(UsedIds) + 1) : i \notin UsedIds

\* the handler of client c calls execute_algorithm(code, ..., key): container
\* and temp_dir are None, the event-loop thread is now inside the call
StartCall(c, key, code) ==
    /\ call' = [phase |-> "materialize", owner |-> c, id |-> FreshId,
                key |-> key, code |-> code, temp_dir |-> 0, container |-> 0,
                result |-> "none"]
    /\ loop' = c

\* tempfile.mkdtemp() and the two files written into it; either may raise
ea_materialize(c) ==
    /\ up /\ call.owner = c /\ call.phase = "materialize"
    /\ pc[c] \in {"exec_run", "bench_run"}
    /\ \E o \in {"ok", "mkdtemp_raises", "write_raises"} :
         /\ tempdirs' = IF o = "mkdtemp_raises" THEN tempdirs
                        ELSE tempdirs \cup {call.id}
         /\ call' = [call EXCEPT
                !.temp_dir = IF o = "mkdtemp_raises" THEN 0 ELSE call.id,
                !.phase = IF o = "ok" THEN "create" ELSE "finally",
                !.result = IF o = "ok" THEN "none" ELSE "setup_failed"]
    /\ UNCHANGED <<active_containers, docker, retorn, gatewayVarsNoExec,
                   analyticsVars>>
    /\ lastStop' = NoStop
    /\ UNCHANGED otherVars

\* _create_container: containers.run(name=f"algo-exec-{session_id}", ...) and
\* active_containers[session_id] = container.  The daemon refuses a name that
\* an existing container bears; any other failure raises as well.
ea_create(c) ==
    /\ up /\ call.owner = c /\ call.phase = "create"
    /\ pc[c] \in {"exec_run", "bench_run"}
    /\ \E o \in {"ok", "raises"} :
         IF o = "ok" /\ ~ \E k \in docker : k.name = call.key
         THEN /\ docker' = docker \cup {[id |-> call.id, name |-> call.key,
                                         code |-> call.code,
                                         image |-> "algorithm-executor",
                                         state |-> "running"]}
              /\ active_containers' =
                    [k \in DOMAIN active_containers \cup {call.key} |->
                       IF k = call.key THEN call.id ELSE active_containers[k]]
              /\ call' = [call EXCEPT !.container = call.id,
                                      !.phase = "monitor"]
         ELSE /\ call' = [call EXCEPT !.phase = "finally",
                                      !.result = "create_failed"]
              /\ UNCHANGED <<docker, active_containers>>
    /\ UNCHANGED <<tempdirs, retorn, gatewayVarsNoExec, analyticsVars>>
    /\ lastStop' = NoStop
    /\ UNCHANGED otherVars

\* _monitor_execution: container.wait(timeout), the logs, the payload of the
\* last stdout line, the metrics.  On a timeout wait() raises and the
\* container is still running; otherwise it has exited.
ea_monitor(c) ==
    /\ up /\ call.owner = c /\ call.phase = "monitor"
    /\ pc[c] \in {"exec_run", "bench_run"}
    /\ \E o \in MonitorOutcomes :
         /\ docker' = {IF k.id = call.container /\ o # "timeout"
                       THEN [k EXCEPT !.state = "exited"] ELSE k : k \in docker}
         /\ call' = [call EXCEPT !.phase = "finally", !.result = o]
    /\ UNCHANGED <<active_containers, tempdirs, retorn,
                   gatewayVarsNoExec, analyticsVars>>
    /\ lastStop' = NoStop
    /\ UNCHANGED otherVars

\* the finally block, on the daemon: container.stop(timeout=5) and
\* container.remove() when a container was created
finally_docker(dk, container) ==
    IF container # 0 THEN docker_remove(dk, container) ELSE dk

\* a finally block that leaves the entry in active_containers
finally_active_kept(ac, key, container) == ac

\* the finally block, on active_containers: the entry of the session id is
\* deleted when a container was created
finally_active(ac, key, container) ==
    IF container # 0 /\ key \in DOMAIN ac THEN del_key(ac, key) ELSE ac

\* a finally block that leaves the scratch directory on the disk
finally_tempdirs_kept(dirs, temp_dir) == dirs

\* the finally block, on the disk: shutil.rmtree(temp_dir) when it was made
finally_tempdirs(dirs, temp_dir) ==
    IF temp_dir # 0 THEN dirs \ {temp_dir} ELSE dirs

\* the finally block of execute_algorithm, then the return to the handler
ea_finally(c) ==
    /\ up /\ call.owner = c /\ call.phase = "finally"
    /\ pc[c] \in {"exec_run", "bench_run"}
    /\ docker' = finally_docker(docker, call.container)
    /\ retorn' = IF call.container # 0
                 THEN count_teardown(retorn, docker, call.container)
                 ELSE retorn
    /\ active_containers' =
          finally_active(active_containers, call.key, call.container)
    /\ tempdirs' = finally_tempdirs(tempdirs, call.temp_dir)
    /\ call' = NoCall
    /\ frame' = [frame EXCEPT ![c].success = Success(call.result)]
    /\ pc' = [pc EXCEPT ![c] = IF pc[c] = "exec_run" THEN "exec_ret"
                                                     ELSE "bench_ret"]
    /\ UNCHANGED <<conn, clients, active_sessions, inbox, nsent, loop,
                   outbox, status, stopped, up, analyticsVars>>
    /\ lastStop' = NoStop
    /\ UNCHANGED otherVars

(***************************************************************************)
(* EnhancedWebSocketServer: the gateway                                    *)
(***************************************************************************)
\* the fields a frame carries: data.get(...) is None for a missing one (the
\* frames of Messages carry all of them)
has_field(m, field) ==
    CASE field = "sessionId" -> m.sessionId # "none"
      [] field = "algorithmCode" -> m.code # ""
      [] field = "testData" ->
           IF "testData" \in DOMAIN m THEN m.testData ELSE TRUE

\* a check that never asks for testData
required_fields_without_data(type) == {"sessionId", "algorithmCode"}

\* the fields of `if not all([...])` at the head of each handler
required_fields(type) ==
    IF type = "EXECUTE_ALGORITHM"
    THEN {"sessionId", "algorithmCode", "testData"}
    ELSE {"sessionId", "algorithmCode"}

\* all([session_id, algorithm_code, ...])
all_fields(m) == \A f \in required_fields(m.type) : has_field(m, f)

\* the task of c is back in `async for message in websocket` and a frame waits
Reads(c, type) ==
    /\ up /\ loop = NoClient
    /\ pc[c] = "idle"
    /\ inbox[c] # <<>>
    /\ Head(inbox[c]).type = type

\* active_sessions[session_id] = {'client_id': ..., 'type': ...}
store_session(as, sid, c, type) ==
    [as EXCEPT ![sid] = [client_id |-> c, type |-> type]]

\* a deletion that leaves the registry as it is
del_session_kept(as, sid) == as

\* if session_id in self.active_sessions: del self.active_sessions[session_id]
del_session(as, sid) == [as EXCEPT ![sid] = NoSession]

\* a send to a closed connection raises ConnectionClosed; raised before the
\* handler's try block nothing is undone, and the exception leaves
\* process_message (whose own send_error raises again) for handle_client
RaiseOutsideTry(c) ==
    /\ pc' = [pc EXCEPT ![c] = "closing"]
    /\ loop' = c

\* raised inside the try block: the except clause's send_error raises too, the
\* finally clause deletes the session, then as above
RaiseInsideTry(c, sid) ==
    /\ active_sessions' = del_session(active_sessions, sid)
    /\ pc' = [pc EXCEPT ![c] = "closing"]
    /\ loop' = c

\* handle_algorithm_execution up to its first await: the session is stored
\* and EXECUTION_STARTED is sent
handle_algorithm_execution(c) ==
    /\ Reads(c, "EXECUTE_ALGORITHM")
    /\ all_fields(Head(inbox[c]))
    /\ LET m == Head(inbox[c]) IN
         /\ inbox' = [inbox EXCEPT ![c] = Tail(@)]
         /\ active_sessions' =
               store_session(active_sessions, m.sessionId, c, "execution")
         /\ frame' = [frame EXCEPT ![c] = [NoFrame EXCEPT !.sid = m.sessionId,
                                                          !.code = m.code]]
         /\ status' = [status EXCEPT ![c] = "created"]
         /\ stopped' = stopped \ {m.sessionId}
         /\ IF conn[c] = "open"
            THEN /\ outbox' = [outbox EXCEPT ![c] =
                        send(<<>>, Msg("EXECUTION_STARTED", m.sessionId, ""))]
                 /\ pc' = [pc EXCEPT ![c] = "exec_call"]
                 /\ UNCHANGED loop
            ELSE /\ outbox' = [outbox EXCEPT ![c] = <<>>]
                 /\ RaiseOutsideTry(c)
    /\ UNCHANGED <<conn, clients, nsent, up, execVars, analyticsVars>>
    /\ lastStop' = NoStop
    /\ UNCHANGED otherVars

\* result = self.docker_executor.execute_algorithm(..., session_id)
exec_call(c) ==
    /\ up /\ loop = NoClient
    /\ pc[c] = "exec_call"
    /\ StartCall(c, PlainKey(frame[c].sid), frame[c].code)
    /\ pc' = [pc EXCEPT ![c] = "exec_run"]
    /\ status' = [status EXCEPT ![c] = IF @ = "created" THEN "running" ELSE @]
    /\ UNCHANGED <<conn, clients, active_sessions, inbox, nsent, frame,
                   outbox, stopped, up, active_containers, docker, tempdirs,
                   retorn, analyticsVars>>
    /\ lastStop' = NoStop
    /\ UNCHANGED otherVars

\* the PerformancePoint of a successful run
\* a handler that adds a point for every run
adds_point_always(success) == TRUE

\* `if result.success:` before the PerformancePoint is built and added
adds_point(success) == success

Point(alg, sid, size, t) ==
    [timestamp |-> t, algorithm_name |-> alg, session_id |-> sid,
     input_size |-> size]

\* after execute_algorithm returned: a successful result is added to the
\* analytics, then EXECUTION_STEP is sent
exec_ret(c) ==
    /\ up /\ loop = c
    /\ pc[c] = "exec_ret"
    /\ IF adds_point(frame[c].success)
       THEN add_performance_point(Point("two_sum", frame[c].sid, 1, 0))
       ELSE UNCHANGED <<performance_history, algorithm_trends>>
    /\ IF conn[c] = "open"
       THEN /\ outbox' = [outbox EXCEPT ![c] =
                   send(@, Msg("EXECUTION_STEP", frame[c].sid, ""))]
            /\ pc' = [pc EXCEPT ![c] = "exec_completed"]
            /\ loop' = NoClient
            /\ UNCHANGED active_sessions
       ELSE /\ RaiseInsideTry(c, frame[c].sid)
            /\ UNCHANGED outbox
    /\ UNCHANGED <<conn, clients, inbox, nsent, frame, status, stopped, up,
                   execVars, added>>
    /\ lastStop' = NoStop
    /\ UNCHANGED otherVars

\* EXECUTION_COMPLETED{success, error} is sent
exec_completed(c) ==
    /\ up /\ loop = NoClient
    /\ pc[c] = "exec_completed"
    /\ IF conn[c] = "open"
       THEN /\ outbox' = [outbox EXCEPT ![c] =
                   send(@, Msg("EXECUTION_COMPLETED", frame[c].sid,
                                 IF frame[c].success THEN "success"
                                 ELSE "no_success"))]
            /\ status' = [status EXCEPT ![c] =
                   IF @ \in Terminal THEN @
                   ELSE IF frame[c].success THEN "completed"
                   ELSE "failed"]
            /\ pc' = [pc EXCEPT ![c] = "exec_finally"]
            /\ UNCHANGED <<active_sessions, loop>>
       ELSE /\ RaiseInsideTry(c, frame[c].sid)
            /\ UNCHANGED <<outbox, status>>
    /\ UNCHANGED <<conn, clients, inbox, nsent, frame, stopped, up, execVars,
                   analyticsVars>>
    /\ lastStop' = NoStop
    /\ UNCHANGED otherVars

\* the finally clause of a handler: the session leaves the registry, and the
\* task waits for the next frame
handler_finally(c) ==
    /\ up /\ loop = NoClient
    /\ pc[c] \in {"exec_finally", "bench_finally", "test_finally"}
    /\ active_sessions' = del_session(active_sessions, frame[c].sid)
    /\ pc' = [pc EXCEPT ![c] = "idle"]
    /\ frame' = [frame EXCEPT ![c] = NoFrame]
    /\ outbox' = [outbox EXCEPT ![c] = <<>>]
    /\ status' = [status EXCEPT ![c] = "none"]
    /\ UNCHANGED <<conn, clients, inbox, nsent, loop, stopped, up, execVars,
                   analyticsVars>>
    /\ lastStop' = NoStop
    /\ UNCHANGED otherVars

\* handle_stop_execution: a registered session has its execution stopped, is
\* deleted and acknowledged with EXECUTION_STOPPED{success}; any other id is
\* answered with ERROR "Session not found"
handle_stop_execution(c) ==
    /\ Reads(c, "STOP_EXECUTION")
    /\ LET sid == Head(inbox[c]).sessionId
           found == active_sessions[sid] # NoSession
           owner == active_sessions[sid].client_id
           w == IF found THEN stop_execution(World, PlainKey(sid)) ELSE World
           reply == IF found
                    THEN Msg("EXECUTION_STOPPED", sid,
                             IF w.ret THEN "success" ELSE "no_success")
                    ELSE Msg("ERROR", sid, "Session not found")
       IN
         /\ inbox' = [inbox EXCEPT ![c] = Tail(@)]
         /\ active_containers' = w.ac
         /\ docker' = w.dk
         /\ retorn' = w.rt
         /\ active_sessions' =
               IF found THEN del_session(active_sessions, sid)
               ELSE active_sessions
         /\ frame' = [frame EXCEPT ![c] = NoFrame]
         /\ lastStop' = [op |-> "handle_stop_execution", sid |-> sid,
                         by |-> c, found |-> found,
                         running |-> found /\ status[owner] = "running",
                         repeat |-> sid \in stopped,
                         success |-> w.ret,
                         keys |-> IF found THEN {PlainKey(sid)} ELSE {}]
         /\ stopped' = stopped \cup {sid}
         /\ IF conn[c] = "open"
            THEN /\ outbox' = [outbox EXCEPT ![c] = send(<<>>, reply)]
                 /\ status' = [k \in Clients |->
                        IF found /\ k = owner THEN "stopped"
                        ELSE IF k = c THEN "none" ELSE status[k]]
                 /\ UNCHANGED <<pc, loop>>
            ELSE /\ outbox' = [outbox EXCEPT ![c] = <<>>]
                 /\ status' = [k \in Clients |->
                        IF k = c THEN "none" ELSE status[k]]
                 /\ RaiseOutsideTry(c)
    /\ UNCHANGED <<conn, clients, nsent, up, tempdirs, call,
                   analyticsVars>>
    /\ UNCHANGED otherVars

\* the sessions unregister_client cancels: those whose record names the client
sessions_to_cancel(as, c) == {sid \in SessionIds : as[sid].client_id = c}

\* an unregister_client that deletes no session
cancel_sessions_none(as, c) == as

\* the registry after unregister_client deleted them
cancel_sessions(as, c) ==
    [sid \in SessionIds |->
       IF sid \in sessions_to_cancel(as, c) THEN NoSession ELSE as[sid]]

\* handle_client's finally clause: after an exception left the message loop,
\* or when the loop ends because the connection is closed and no frame waits
unregister_client(c) ==
    /\ up
    /\ \/ pc[c] = "closing" /\ loop = c
       \/ /\ pc[c] = "idle" /\ loop = NoClient
          /\ inbox[c] = <<>> /\ conn[c] = "closed"
    /\ LET cancel == sessions_to_cancel(active_sessions, c)
           keys == {PlainKey(sid) : sid \in cancel}
           w == stop_all(World, keys)
       IN
         /\ clients' = clients \ {c}
         /\ active_containers' = w.ac
         /\ docker' = w.dk
         /\ retorn' = w.rt
         /\ active_sessions' = cancel_sessions(active_sessions, c)
         /\ lastStop' = [op |-> "unregister_client", sid |-> "none", by |-> c,
                         found |-> cancel # {}, running |-> FALSE,
                         repeat |-> FALSE,
                         success |-> FALSE, keys |-> keys]
         /\ status' = [status EXCEPT ![c] =
                IF cancel # {} /\ @ \notin Terminal THEN "stopped" ELSE @]
    /\ pc' = [pc EXCEPT ![c] = "gone"]
    /\ loop' = NoClient
    /\ conn' = [conn EXCEPT ![c] = "closed"]
    /\ inbox' = [inbox EXCEPT ![c] = <<>>]
    /\ UNCHANGED <<nsent, frame, outbox, stopped, up, tempdirs, call,
                   analyticsVars>>
    /\ UNCHANGED otherVars

\* _shutdown, run by the event loop on SIGTERM/SIGINT: stop_execution for
\* every registered session, cleanup_all, sys.exit(0)
shutdown ==
    /\ up /\ loop = NoClient
    /\ LET keys == {PlainKey(sid) : sid \in
                      {x \in SessionIds : active_sessions[x] # NoSession}}
           w == cleanup_all(stop_all(World, keys))
       IN
         /\ active_containers' = w.ac
         /\ docker' = w.dk
         /\ retorn' = w.rt
         /\ lastStop' = [op |-> "_shutdown", sid |-> "none", by |-> NoClient,
                         found |-> keys # {}, running |-> FALSE,
                         repeat |-> FALSE,
                         success |-> FALSE,
                         keys |-> keys \cup DOMAIN active_containers]
    /\ up' = FALSE
    /\ UNCHANGED <<conn, clients, active_sessions, inbox, nsent, pc, frame,
                   loop, outbox, status, stopped, tempdirs, call,
                   analyticsVars>>
    /\ UNCHANGED otherVars

\* handle_performance_benchmark up to its first await
handle_performance_benchmark(c) ==
    /\ Reads(c, "PERFORMANCE_BENCHMARK")
    /\ all_fields(Head(inbox[c]))
    /\ LET m == Head(inbox[c]) IN
         /\ inbox' = [inbox EXCEPT ![c] = Tail(@)]
         /\ active_sessions' =
               store_session(active_sessions, m.sessionId, c, "benchmark")
         /\ frame' = [frame EXCEPT ![c] = [NoFrame EXCEPT !.sid = m.sessionId,
                                                          !.code = m.code]]
         /\ status' = [status EXCEPT ![c] = "created"]
         /\ stopped' = stopped \ {m.sessionId}
         /\ IF conn[c] = "open"
            THEN /\ outbox' = [outbox EXCEPT ![c] =
                        send(<<>>, Msg("BENCHMARK_STARTED", m.sessionId, ""))]
                 /\ pc' = [pc EXCEPT ![c] = "bench_call"]
                 /\ UNCHANGED loop
            ELSE /\ outbox' = [outbox EXCEPT ![c] = <<>>]
                 /\ RaiseOutsideTry(c)
    /\ UNCHANGED <<conn, clients, nsent, up, execVars, analyticsVars>>
    /\ lastStop' = NoStop
    /\ UNCHANGED otherVars

\* one pass of `for i, size in enumerate(input_sizes)`: execute_algorithm is
\* called with the key f"{session_id}_{i}"
bench_call(c) ==
    /\ CanRun(c)
    /\ pc[c] = "bench_call"
    /\ StartCall(c, BenchKey(frame[c].sid, frame[c].i), frame[c].code)
    /\ pc' = [pc EXCEPT ![c] = "bench_run"]
    /\ status' = [status EXCEPT ![c] = IF @ = "created" THEN "running" ELSE @]
    /\ UNCHANGED <<conn, clients, active_sessions, inbox, nsent, frame,
                   outbox, stopped, up, active_containers, docker, tempdirs,
                   retorn, analyticsVars>>
    /\ lastStop' = NoStop
    /\ UNCHANGED otherVars

\* the rest of the pass: a successful result is added to the analytics and
\* reported with BENCHMARK_PROGRESS (an await); a failed one is only logged
\* and the loop goes on without leaving the event-loop thread
bench_ret(c) ==
    /\ up /\ loop = c
    /\ pc[c] = "bench_ret"
    /\ LET i == frame[c].i
           next == IF i + 1 < NumSizes THEN "bench_call" ELSE "bench_final"
       IN
         IF adds_point(frame[c].success)
         THEN /\ add_performance_point(
                    Point("two_sum", frame[c].sid, i + 1, 0))
              /\ IF conn[c] = "open"
                 THEN /\ outbox' = [outbox EXCEPT ![c] =
                             send(@, Msg("BENCHMARK_PROGRESS", frame[c].sid,
                                           ""))]
                      /\ frame' = [frame EXCEPT ![c].i = i + 1,
                                                ![c].any = TRUE]
                      /\ pc' = [pc EXCEPT ![c] = next]
                      /\ loop' = NoClient
                      /\ UNCHANGED active_sessions
                 ELSE /\ RaiseInsideTry(c, frame[c].sid)
                      /\ UNCHANGED <<outbox, frame>>
         ELSE /\ frame' = [frame EXCEPT ![c].i = i + 1]
              /\ pc' = [pc EXCEPT ![c] = next]
              /\ UNCHANGED <<outbox, loop, active_sessions,
                             performance_history, algorithm_trends>>
    /\ UNCHANGED <<conn, clients, inbox, nsent, status, stopped, up,
                   execVars, added>>
    /\ lastStop' = NoStop
    /\ UNCHANGED otherVars

\* after the loop: when some size succeeded, get_algorithm_trend and
\* BENCHMARK_COMPLETED, or ERROR "Benchmark failed" when the trend cannot be
\* serialised (its performance_regression is a numpy bool once the algorithm
\* has five points); when no size succeeded, ERROR "All benchmark tests failed"
bench_final(c) ==
    /\ CanRun(c)
    /\ pc[c] = "bench_final"
    /\ IF conn[c] = "open"
       THEN \E serialisable \in BOOLEAN :
            /\ outbox' = [outbox EXCEPT ![c] = send(@,
                   IF frame[c].any /\ serialisable
                   THEN Msg("BENCHMARK_COMPLETED", frame[c].sid, "")
                   ELSE IF frame[c].any
                   THEN Msg("ERROR", frame[c].sid, "Benchmark failed")
                   ELSE Msg("ERROR", frame[c].sid,
                            "All benchmark tests failed"))]
            /\ status' = [status EXCEPT ![c] =
                   IF @ \in Terminal THEN @
                   ELSE IF frame[c].any /\ serialisable THEN "completed"
                   ELSE "failed"]
            /\ pc' = [pc EXCEPT ![c] = "bench_finally"]
            /\ loop' = NoClient
            /\ UNCHANGED active_sessions
       ELSE /\ RaiseInsideTry(c, frame[c].sid)
            /\ UNCHANGED <<outbox, status>>
    /\ UNCHANGED <<conn, clients, inbox, nsent, frame, stopped, up, execVars,
                   analyticsVars>>
    /\ lastStop' = NoStop
    /\ UNCHANGED otherVars

(***************************************************************************)
(* RUN_TESTS and TestFramework.run_test_suite                              *)
(***************************************************************************)
\* handle_test_execution up to its first await
handle_test_execution(c) ==
    /\ Reads(c, "RUN_TESTS")
    /\ all_fields(Head(inbox[c]))
    /\ LET m == Head(inbox[c]) IN
         /\ inbox' = [inbox EXCEPT ![c] = Tail(@)]
         /\ active_sessions' =
               store_session(active_sessions, m.sessionId, c, "testing")
         /\ frame' = [frame EXCEPT ![c] = [NoFrame EXCEPT !.sid = m.sessionId,
                                                          !.code = m.code]]
         /\ status' = [status EXCEPT ![c] = "created"]
         /\ stopped' = stopped \ {m.sessionId}
         /\ IF conn[c] = "open"
            THEN /\ outbox' = [outbox EXCEPT ![c] =
                        send(<<>>, Msg("TESTING_STARTED", m.sessionId, ""))]
                 /\ pc' = [pc EXCEPT ![c] = "test_call"]
                 /\ UNCHANGED loop
            ELSE /\ outbox' = [outbox EXCEPT ![c] = <<>>]
                 /\ RaiseOutsideTry(c)
    /\ UNCHANGED <<conn, clients, nsent, up, execVars, analyticsVars>>
    /\ lastStop' = NoStop
    /\ UNCHANGED otherVars

\* result = self.test_framework.run_test_suite(algorithm_name, code, cases)
test_call(c) ==
    /\ up /\ loop = NoClient
    /\ pc[c] = "test_call"
    /\ StartCall(c, NoKey, frame[c].code)
    /\ pc' = [pc EXCEPT ![c] = "test_run"]
    /\ status' = [status EXCEPT ![c] = IF @ = "created" THEN "running" ELSE @]
    /\ UNCHANGED <<conn, clients, active_sessions, inbox, nsent, frame,
                   outbox, stopped, up, active_containers, docker, tempdirs,
                   retorn, analyticsVars>>
    /\ lastStop' = NoStop
    /\ UNCHANGED otherVars

\* tempfile.mkdtemp() and _generate_test_files
tf_materialize(c) ==
    /\ up /\ call.owner = c /\ call.phase = "materialize"
    /\ pc[c] = "test_run"
    /\ \E o \in {"ok", "mkdtemp_raises", "write_raises"} :
         /\ tempdirs' = IF o = "mkdtemp_raises" THEN tempdirs
                        ELSE tempdirs \cup {call.id}
         /\ call' = [call EXCEPT
                !.temp_dir = IF o = "mkdtemp_raises" THEN 0 ELSE call.id,
                !.phase = IF o = "ok" THEN "create" ELSE "finally",
                !.result = IF o = "ok" THEN "none" ELSE "wholly_failed"]
    /\ UNCHANGED <<active_containers, docker, retorn,
                   gatewayVarsNoExec, analyticsVars>>
    /\ lastStop' = NoStop
    /\ UNCHANGED otherVars

\* _create_test_container: an unnamed container of the test image, known only
\* to the local variable
tf_create(c) ==
    /\ up /\ call.owner = c /\ call.phase = "create"
    /\ pc[c] = "test_run"
    /\ \E o \in {"ok", "raises"} :
         IF o = "ok"
         THEN /\ docker' = docker \cup {[id |-> call.id, name |-> NoKey,
                                         code |-> call.code,
                                         image |-> "algorithm-tester",
                                         state |-> "running"]}
              /\ call' = [call EXCEPT !.container = call.id,
                                      !.phase = "monitor"]
         ELSE /\ call' = [call EXCEPT !.phase = "finally",
                                      !.result = "wholly_failed"]
              /\ UNCHANGED docker
    /\ UNCHANGED <<active_containers, tempdirs, retorn, gatewayVarsNoExec,
                   analyticsVars>>
    /\ lastStop' = NoStop
    /\ UNCHANGED otherVars

\* _execute_tests: container.wait(timeout=120) and the parsing of the results;
\* an exception is re-raised and turned into the wholly failed result
tf_execute(c) ==
    /\ up /\ call.owner = c /\ call.phase = "monitor"
    /\ pc[c] = "test_run"
    /\ \E o \in {"ran", "wait_raises"} :
         /\ docker' = {IF k.id = call.container /\ o = "ran"
                       THEN [k EXCEPT !.state = "exited"] ELSE k : k \in docker}
         /\ call' = [call EXCEPT !.phase = "finally",
                       !.result = IF o = "ran" THEN "ran" ELSE "wholly_failed"]
    /\ UNCHANGED <<active_containers, tempdirs, retorn,
                   gatewayVarsNoExec, analyticsVars>>
    /\ lastStop' = NoStop
    /\ UNCHANGED otherVars

\* the finally block of run_test_suite, then the return to the handler
tf_finally(c) ==
    /\ up /\ call.owner = c /\ call.phase = "finally"
    /\ pc[c] = "test_run"
    /\ docker' = finally_docker(docker, call.container)
    /\ retorn' = IF call.container # 0
                 THEN count_teardown(retorn, docker, call.container)
                 ELSE retorn
    /\ tempdirs' = finally_tempdirs(tempdirs, call.temp_dir)
    /\ call' = NoCall
    /\ frame' = [frame EXCEPT ![c].success = (call.result = "ran")]
    /\ pc' = [pc EXCEPT ![c] = "test_ret"]
    /\ UNCHANGED <<active_containers, conn, clients, active_sessions, inbox,
                   nsent, loop, outbox, status, stopped, up, analyticsVars>>
    /\ lastStop' = NoStop
    /\ UNCHANGED otherVars

\* TESTING_COMPLETED{testResults} is sent
test_ret(c) ==
    /\ up /\ loop = c
    /\ pc[c] = "test_ret"
    /\ IF conn[c] = "open"
       THEN /\ outbox' = [outbox EXCEPT ![c] =
                   send(@, Msg("TESTING_COMPLETED", frame[c].sid, ""))]
            /\ status' = [status EXCEPT ![c] =
                   IF @ \in Terminal THEN @ ELSE "completed"]
            /\ pc' = [pc EXCEPT ![c] = "test_finally"]
            /\ loop' = NoClient
            /\ UNCHANGED active_sessions
       ELSE /\ RaiseInsideTry(c, frame[c].sid)
            /\ UNCHANGED <<outbox, status>>
    /\ UNCHANGED <<conn, clients, inbox, nsent, frame, stopped, up, execVars,
                   analyticsVars>>
    /\ lastStop' = NoStop
    /\ UNCHANGED otherVars

(***************************************************************************)
(* The gateway with its clients                                            *)
(***************************************************************************)
\* every step of the server: the tasks of the clients and the signal handler
Server ==
    \/ \E c \in Clients : register_client(c)
    \/ \E c \in Clients : handle_algorithm_execution(c)
    \/ \E c \in Clients : exec_call(c)
    \/ \E c \in Clients : ea_materialize(c)
    \/ \E c \in Clients : ea_create(c)
    \/ \E c \in Clients : ea_monitor(c)
    \/ \E c \in Clients : ea_finally(c)
    \/ \E c \in Clients : exec_ret(c)
    \/ \E c \in Clients : exec_completed(c)
    \/ \E c \in Clients : handler_finally(c)
    \/ \E c \in Clients : handle_performance_benchmark(c)
    \/ \E c \in Clients : bench_call(c)
    \/ \E c \in Clients : bench_ret(c)
    \/ \E c \in Clients : bench_final(c)
    \/ \E c \in Clients : handle_test_execution(c)
    \/ \E c \in Clients : test_call(c)
    \/ \E c \in Clients : tf_materialize(c)
    \/ \E c \in Clients : tf_create(c)
    \/ \E c \in Clients : tf_execute(c)
    \/ \E c \in Clients : tf_finally(c)
    \/ \E c \in Clients : test_ret(c)
    \/ \E c \in Clients : handle_stop_execution(c)
    \/ \E c \in Clients : unregister_client(c)
    \/ shutdown

Next ==
    \/ \E c \in Clients : \E m \in Messages : ClientSend(c, m)
    \/ \E c \in Clients : ClientDisconnect(c)
    \/ Server

Spec == Init /\ [][Next]_vars

\* the same server when the clients send one request and then only
\* STOP_EXECUTION frames
NextStop ==
    \/ \E c \in Clients : \E m \in Messages : ClientSendStop(c, m)
    \/ \E c \in Clients : ClientDisconnect(c)
    \/ Server

SpecStop == Init /\ [][NextStop]_vars

(***************************************************************************)
(* PerformanceAnalytics on its own: a caller adds points one after another *)
(***************************************************************************)
InputSizes == {100, 500}

AddPoint(alg, size) ==
    /\ Len(added) < MaxAdds
    /\ LET point == Point(alg, "s1", size, Len(added) + 1) IN
         /\ add_performance_point(point)
         /\ added' = Append(added, point)
    /\ UNCHANGED <<gatewayVars, otherVars>>

NextAnalytics == \E alg \in Algorithms : \E size \in InputSizes :
                    AddPoint(alg, size)

SpecAnalytics == Init /\ [][NextAnalytics]_vars

(***************************************************************************)
(* PerformanceAnalytics: subscribers and the background loop               *)
(***************************************************************************)
Callbacks == {"cb1", "cb2"}

\* a try statement without handler: the exception leaves it
unguarded_call(outcome) == outcome

\* try: callback(event_type, data) / except Exception: logger.error(...):
\* what leaves the try statement when the callback returns or raises
guarded_call(outcome) == IF outcome = "raises" THEN "logged" ELSE "returned"

\* _notify_subscribers from the i-th subscriber on, when the callbacks of
\* bad raise: the callbacks called, and whether an exception left the loop
RECURSIVE notify_subscribers(_, _, _)
notify_subscribers(subs, bad, i) ==
    IF i > Len(subs) THEN [called |-> <<>>, escaped |-> FALSE]
    ELSE LET out == guarded_call(IF subs[i] \in bad THEN "raises"
                                 ELSE "returns")
         IN IF out = "raises"
            THEN [called |-> <<subs[i]>>, escaped |-> TRUE]
            ELSE LET rest == notify_subscribers(subs, bad, i + 1)
                 IN [called |-> <<subs[i]>> \o rest.called,
                     escaped |-> rest.escaped]

\* the record of one _notify_subscribers call
Notified(event, bad, by) ==
    LET n == notify_subscribers(subscribers, bad, 1)
    IN [event |-> event, subs |-> subscribers, called |-> n.called,
        raised |-> {n.called[k] : k \in 1..Len(n.called)} \cap bad,
        escaped |-> n.escaped, by |-> by]

\* list.remove: the first occurrence goes
list_remove(l, x) ==
    LET i == CHOOSE k \in 1..Len(l) :
                 l[k] = x /\ \A j \in 1..(k - 1) : l[j] # x
    IN SubSeq(l, 1, i - 1) \o SubSeq(l, i + 1, Len(l))

subscribe(cb) ==
    /\ ~ stopping
    /\ Len(subscribers) < MaxSubscribers
    /\ subscribers' = Append(subscribers, cb)
    /\ lastNotify' = NoNotify
    /\ UNCHANGED <<running, analytics_thread, tpc, stopping, stop_returned,
                   gatewayVars, analyticsVars, callVars>>

unsubscribe(cb) ==
    /\ ~ stopping
    /\ \E k \in 1..Len(subscribers) : subscribers[k] = cb
    /\ subscribers' = list_remove(subscribers, cb)
    /\ lastNotify' = NoNotify
    /\ UNCHANGED <<running, analytics_thread, tpc, stopping, stop_returned,
                   gatewayVars, analyticsVars, callVars>>

\* a caller adds a point: the histories, then the 'performance_point' event
notify_performance_point(alg, bad) ==
    /\ ~ stopping
    /\ Len(added) < MaxAdds
    /\ LET point == Point(alg, "s1", 100, Len(added) + 1) IN
         /\ add_performance_point(point)
         /\ added' = Append(added, point)
    /\ lastNotify' = Notified("performance_point", bad, "caller")
    /\ UNCHANGED <<subscribers, running, analytics_thread, tpc, stopping,
                   stop_returned, gatewayVars, callVars>>

\* start_analytics, called when no loop thread is alive (the server calls it
\* once, from its constructor)
start_analytics ==
    /\ ~ stopping
    /\ tpc \in {"none", "done"}
    /\ running' = TRUE
    /\ analytics_thread' = "started"
    /\ tpc' = "check"
    /\ stop_returned' = FALSE
    /\ lastNotify' = NoNotify
    /\ UNCHANGED <<subscribers, stopping, gatewayVars, analyticsVars,
                   callVars>>

\* stop_analytics up to join(): without a thread it returns at once
stop_analytics ==
    /\ ~ stopping
    /\ running' = FALSE
    /\ stopping' = (analytics_thread # "none")
    /\ lastNotify' = NoNotify
    /\ UNCHANGED <<subscribers, analytics_thread, tpc, stop_returned,
                   gatewayVars, analyticsVars, callVars>>

\* a join that does not wait
joined_at_once(t) == TRUE

\* Thread.join() returns once the thread has ended
joined(t) == t = "done"

\* self.analytics_thread.join() returns
stop_join ==
    /\ stopping
    /\ joined(tpc)
    /\ stopping' = FALSE
    /\ stop_returned' = TRUE
    /\ lastNotify' = NoNotify
    /\ UNCHANGED <<subscribers, running, analytics_thread, tpc, gatewayVars,
                   analyticsVars, callVars>>

\* while self.running:
loop_check ==
    /\ tpc = "check"
    /\ tpc' = IF running THEN "trends" ELSE "done"
    /\ lastNotify' = NoNotify
    /\ UNCHANGED <<subscribers, running, analytics_thread, stopping,
                   stop_returned, gatewayVars, analyticsVars, callVars>>

\* the algorithms get_algorithm_trend has a trend for
with_trend == {a \in DOMAIN algorithm_trends : Len(algorithm_trends[a]) >= 2}

\* the for loop over algorithm_trends: a 'trend_update' event for each
\* algorithm with a trend; an exception raised by the analysis itself goes to
\* the loop's except clause
loop_trends(bad) ==
    /\ tpc = "trends"
    /\ \E raises \in BOOLEAN :
         /\ tpc' = IF raises THEN "sleep" ELSE "metrics"
         /\ lastNotify' = IF raises \/ with_trend = {} THEN NoNotify
                          ELSE Notified("trend_update", bad, "loop")
    /\ UNCHANGED <<subscribers, running, analytics_thread, stopping,
                   stop_returned, gatewayVars, analyticsVars, callVars>>

\* get_real_time_metrics and the 'metrics_update' event
loop_metrics(bad) ==
    /\ tpc = "metrics"
    /\ \E raises \in BOOLEAN :
         /\ tpc' = "sleep"
         /\ lastNotify' = IF raises THEN NoNotify
                          ELSE Notified("metrics_update", bad, "loop")
    /\ UNCHANGED <<subscribers, running, analytics_thread, stopping,
                   stop_returned, gatewayVars, analyticsVars, callVars>>

\* time.sleep(5), or time.sleep(1) in the except clause
loop_sleep ==
    /\ tpc = "sleep"
    /\ tpc' = "check"
    /\ lastNotify' = NoNotify
    /\ UNCHANGED <<subscribers, running, analytics_thread, stopping,
                   stop_returned, gatewayVars, analyticsVars, callVars>>

\* a client session enters the registry or leaves it
session_opens(sid, c) ==
    /\ ~ stopping
    /\ active_sessions[sid] = NoSession
    /\ active_sessions' = store_session(active_sessions, sid, c, "execution")
    /\ lastNotify' = NoNotify
    /\ UNCHANGED <<conn, clients, active_containers, docker, tempdirs, retorn,
                   inbox, nsent, pc, frame, loop, call, outbox, status,
                   stopped, lastStop, up, analyticsVars, subscribers,
                   running, analytics_thread, tpc, stopping, stop_returned,
                   callVars>>

session_closes(sid) ==
    /\ ~ stopping
    /\ active_sessions[sid] # NoSession
    /\ active_sessions' = del_session(active_sessions, sid)
    /\ lastNotify' = NoNotify
    /\ UNCHANGED <<conn, clients, active_containers, docker, tempdirs, retorn,
                   inbox, nsent, pc, frame, loop, call, outbox, status,
                   stopped, lastStop, up, analyticsVars, subscribers,
                   running, analytics_thread, tpc, stopping, stop_returned,
                   callVars>>

\* the callbacks subscribed now
Subscribed == {subscribers[k] : k \in 1..Len(subscribers)}

NextEngine ==
    \/ \E cb \in Callbacks : subscribe(cb)
    \/ \E cb \in Callbacks : unsubscribe(cb)
    \/ \E alg \in Algorithms : \E bad \in SUBSET Subscribed :
          notify_performance_point(alg, bad)
    \/ start_analytics
    \/ stop_analytics
    \/ stop_join
    \/ loop_check
    \/ \E bad \in SUBSET Subscribed : loop_trends(bad)
    \/ \E bad \in SUBSET Subscribed : loop_metrics(bad)
    \/ loop_sleep
    \/ \E sid \in SessionIds : session_opens(sid, "c1")
    \/ \E sid \in SessionIds : session_closes(sid)

SpecEngine == Init /\ [][NextEngine]_vars

\* the thread of _analytics_loop is scheduled again and again, and a caller
\* whose join() can return does return
SpecEngineLive ==
    /\ SpecEngine
    /\ WF_vars(loop_check)
    /\ WF_vars(\E bad \in SUBSET Subscribed : loop_trends(bad))
    /\ WF_vars(\E bad \in SUBSET Subscribed : loop_metrics(bad))
    /\ WF_vars(loop_sleep)
    /\ WF_vars(stop_join)

(***************************************************************************)
(* get_algorithm_trend                                                     *)
(***************************************************************************)
\* the value a call returns when it has no trend to give
None == [none |-> TRUE]

\* a trend that needs three points
get_algorithm_trend_from3(tr, algorithm_name) ==
    IF algorithm_name \notin DOMAIN tr THEN None
    ELSE LET points == tr[algorithm_name] IN
         IF Len(points) < 3 THEN None
         ELSE [algorithm_name |-> algorithm_name,
               data_points |-> Len(points),
               over |-> [k \in 1..Len(points) |-> points[k].timestamp]]

\* get_algorithm_trend: None for an unknown algorithm or fewer than two
\* points; otherwise a PerformanceTrend built from self.algorithm_trends as it
\* is at the call.  over: the points the averages and the fits are taken over.
get_algorithm_trend(tr, algorithm_name) ==
    IF algorithm_name \notin DOMAIN tr THEN None
    ELSE LET points == tr[algorithm_name] IN
         IF Len(points) < 2 THEN None
         ELSE [algorithm_name |-> algorithm_name,
               data_points |-> Len(points),
               over |-> [k \in 1..Len(points) |-> points[k].timestamp]]

\* the algorithm names a caller asks about; "lis" is never added
Asked == Algorithms \cup {"lis"}

\* add_performance_point between two calls of get_algorithm_trend
trend_add(alg, size) ==
    /\ Len(added) < MaxAdds
    /\ LET point == Point(alg, "s1", size, Len(added) + 1) IN
         /\ add_performance_point(point)
         /\ added' = Append(added, point)
    /\ args' = <<>>
    /\ result' = <<>>
    /\ UNCHANGED <<gatewayVars, engineVars, local>>

\* a call of get_algorithm_trend
trend_call(alg) ==
    /\ args' = <<alg>>
    /\ result' = <<get_algorithm_trend(algorithm_trends, alg)>>
    /\ UNCHANGED <<gatewayVars, analyticsVars, engineVars, local>>

NextTrend ==
    \/ \E alg \in Algorithms : \E size \in InputSizes : trend_add(alg, size)
    \/ \E alg \in Asked : trend_call(alg)

SpecTrend == Init /\ [][NextTrend]_vars

(***************************************************************************)
(* _detect_performance_regression                                          *)
(***************************************************************************)
\* the longest history handed to _detect_performance_regression
MaxPoints == 6

\* execution times of the points of a history, in hundredths of a second
Times == {0, 10, 11, 15, 20}

RECURSIVE seq_sum(_)
seq_sum(l) == IF l = <<>> THEN 0 ELSE l[1] + seq_sum(Tail(l))

\* points[-6:-3] if len(points) >= 6 else points[:-3]
older_slice(points) ==
    IF Len(points) >= 6
    THEN SubSeq(points, Len(points) - 5, Len(points) - 3)
    ELSE SubSeq(points, 1, Len(points) - 3)

\* a detector that flags only a rise of more than 60%
detect_performance_regression_60(times, tie) ==
    IF Len(times) < 5 THEN FALSE
    ELSE LET recent == last_slice(times, 3)
             older == older_slice(times)
             r == seq_sum(recent) * Len(older) * 5
             o == seq_sum(older) * Len(recent) * 8
         IN IF r = o THEN r # 0 /\ tie ELSE r > o

\* _detect_performance_regression over the execution times of the points:
\* np.mean(recent) > np.mean(older) * 1.2, compared exactly as
\* sum(recent)/len(recent) * 5 > sum(older)/len(older) * 6; where the two
\* sides are equal and not zero the rounding of the floating-point product
\* decides (tie); 0.0 > 0.0 * 1.2 is false.
detect_performance_regression(times, tie) ==
    IF Len(times) < 5 THEN FALSE
    ELSE LET recent == last_slice(times, 3)
             older == older_slice(times)
             r == seq_sum(recent) * Len(older) * 5
             o == seq_sum(older) * Len(recent) * 6
         IN IF r = o THEN r # 0 /\ tie ELSE r > o

Histories == UNION {[1..n -> Times] : n \in 4..MaxPoints}

InitRegression ==
    /\ InitGateway
    /\ InitEngine
    /\ args \in Histories
    /\ result = <<>>
    /\ local = <<>>

\* a call of _detect_performance_regression
regression_call ==
    /\ result = <<>>
    /\ \E tie \in BOOLEAN :
          result' = <<detect_performance_regression(args, tie)>>
    /\ UNCHANGED <<gatewayVars, analyticsVars, engineVars, args, local>>

NextRegression == regression_call

SpecRegression == InitRegression /\ [][NextRegression]_vars

(***************************************************************************)
(* ComplexityAnalyzer.analyze_time_complexity                              *)
(*                                                                         *)
(* Sums of products of n^3 for n = 10000 do not fit a machine integer, so  *)
(* the regression is carried out on natural numbers of any length: a       *)
(* sequence of digits in base Base, least significant first, without       *)
(* leading zeros (<<>> is 0).  R^2 is kept as a fraction.                  *)
(***************************************************************************)
Base == 1000

RECURSIVE bn(_)
bn(n) == IF n = 0 THEN <<>> ELSE <<n % Base>> \o bn(n \div Base)

RECURSIVE bn_strip(_)
bn_strip(a) ==
    IF a = <<>> THEN <<>>
    ELSE IF a[Len(a)] = 0 THEN bn_strip(SubSeq(a, 1, Len(a) - 1)) ELSE a

RECURSIVE bn_add_c(_, _, _)
bn_add_c(a, b, carry) ==
    IF a = <<>> /\ b = <<>> THEN (IF carry = 0 THEN <<>> ELSE <<carry>>)
    ELSE LET x == IF a = <<>> THEN 0 ELSE a[1]
             y == IF b = <<>> THEN 0 ELSE b[1]
             s == x + y + carry
         IN <<s % Base>> \o bn_add_c(IF a = <<>> THEN <<>> ELSE Tail(a),
                                     IF b = <<>> THEN <<>> ELSE Tail(b),
                                     s \div Base)

bn_add(a, b) == bn_add_c(a, b, 0)

\* a - b for a >= b
RECURSIVE bn_sub_b(_, _, _)
bn_sub_b(a, b, borrow) ==
    IF a = <<>> THEN <<>>
    ELSE LET y == IF b = <<>> THEN 0 ELSE b[1]
             d == a[1] - y - borrow
         IN <<IF d < 0 THEN d + Base ELSE d>> \o
            bn_sub_b(Tail(a), IF b = <<>> THEN <<>> ELSE Tail(b),
                     IF d < 0 THEN 1 ELSE 0)

bn_sub(a, b) == bn_strip(bn_sub_b(a, b, 0))

\* a * d for a digit d
RECURSIVE bn_mul_digit(_, _, _)
bn_mul_digit(a, d, carry) ==
    IF a = <<>> THEN (IF carry = 0 THEN <<>> ELSE <<carry>>)
    ELSE LET p == a[1] * d + carry
         IN <<p % Base>> \o bn_mul_digit(Tail(a), d, p \div Base)

RECURSIVE bn_mul(_, _)
bn_mul(a, b) ==
    IF a = <<>> \/ b = <<>> THEN <<>>
    ELSE bn_strip(bn_add(bn_mul_digit(a, b[1], 0),
                         <<0>> \o bn_mul(a, Tail(b))))

\* -1, 0 or 1 as a is less than, equal to or greater than b
RECURSIVE bn_cmp(_, _)
bn_cmp(a, b) ==
    IF Len(a) # Len(b) THEN (IF Len(a) < Len(b) THEN -1 ELSE 1)
    ELSE IF a = <<>> THEN 0
    ELSE IF a[Len(a)] # b[Len(b)]
         THEN (IF a[Len(a)] < b[Len(b)] THEN -1 ELSE 1)
         ELSE bn_cmp(SubSeq(a, 1, Len(a) - 1), SubSeq(b, 1, Len(b) - 1))

\* |a - b|
bn_dist(a, b) == IF bn_cmp(a, b) >= 0 THEN bn_sub(a, b) ELSE bn_sub(b, a)

RECURSIVE bn_sum(_)
bn_sum(l) == IF l = <<>> THEN <<>> ELSE bn_add(l[1], bn_sum(Tail(l)))

\* the sum of the products x[k] * y[k]
RECURSIVE bn_dot(_, _)
bn_dot(x, y) ==
    IF x = <<>> THEN <<>>
    ELSE bn_add(bn_mul(x[1], y[1]), bn_dot(Tail(x), Tail(y)))

\* self.complexity_functions, in the order of the dictionary (n^2 and n^3
\* stand for the labels written with superscript digits)
complexity_functions ==
    <<"O(1)", "O(log n)", "O(n)", "O(n log n)", "O(n^2)", "O(n^3)", "O(2^n)">>

\* np.log2(n) in thousandths, for the sizes of the model
log2_milli(n) ==
    CASE n = 1 -> 0
      [] n = 2 -> 1000
      [] n = 4 -> 2000
      [] n = 8 -> 3000
      [] n = 100 -> 6644
      [] n = 500 -> 8966
      [] n = 1000 -> 9966
      [] n = 5000 -> 12288
      [] n = 10000 -> 13288

RECURSIVE bn_pow2(_)
bn_pow2(n) == IF n = 0 THEN bn(1) ELSE bn_mul(bn(2), bn_pow2(n - 1))

\* np.isnan / np.isinf of func(n): log2(0) is -inf and 0 * log2(0) is nan
invalid_value(name, n) == name \in {"O(log n)", "O(n log n)"} /\ n = 0

\* func(n) of a complexity function (values of the two logarithmic functions
\* in thousandths)
complexity_value(name, n) ==
    CASE name = "O(1)" -> bn(1)
      [] name = "O(log n)" -> bn(log2_milli(n))
      [] name = "O(n)" -> bn(n)
      [] name = "O(n log n)" -> bn_mul(bn(n), bn(log2_milli(n)))
      [] name = "O(n^2)" -> bn_mul(bn(n), bn(n))
      [] name = "O(n^3)" -> bn_mul(bn(n), bn_mul(bn(n), bn(n)))
      [] name = "O(2^n)" -> bn_pow2(n)

seq_max(l) == CHOOSE m \in {l[k] : k \in 1..Len(l)} :
                 \A k \in 1..Len(l) : l[k] <= m

\* best_r_squared = -1
MinusOne == [neg |-> TRUE, num |-> bn(1), den |-> bn(1)]

\* the value 0.0
Zero == [neg |-> FALSE, num |-> <<>>, den |-> bn(1)]

\* a < b for two values of r_squared, anything above -1
r_squared_lt(a, b) ==
    IF a.neg THEN FALSE
    ELSE IF b.neg THEN TRUE
    ELSE bn_cmp(bn_mul(a.num, b.den), bn_mul(b.num, a.den)) < 0

\* a > b for two values of r_squared
r_squared_gt(a, b) ==
    IF a.neg THEN FALSE
    ELSE IF b.neg THEN TRUE
    ELSE bn_cmp(bn_mul(a.num, b.den), bn_mul(b.num, a.den)) > 0

\* a >= b for two values of r_squared
r_squared_ge(a, b) == ~ r_squared_gt(b, a)

\* stats.linregress(x, y) up to r_value ** 2.  With all x identical the
\* library raises ValueError, or in older releases returns r = 0
\* (raises_on_constant); with all y identical r is 0.
linregress(x, y, raises_on_constant) ==
    LET n == bn(Len(x))
        ssxm == bn_sub(bn_mul(n, bn_dot(x, x)), bn_mul(bn_sum(x), bn_sum(x)))
        ssym == bn_sub(bn_mul(n, bn_dot(y, y)), bn_mul(bn_sum(y), bn_sum(y)))
        ssxym == bn_dist(bn_mul(n, bn_dot(x, y)), bn_mul(bn_sum(x), bn_sum(y)))
    IN IF ssxm = <<>>
       THEN [fitted |-> ~ raises_on_constant, r_squared |-> Zero]
       ELSE IF ssym = <<>> THEN [fitted |-> TRUE, r_squared |-> Zero]
       ELSE [fitted |-> TRUE,
             r_squared |-> [neg |-> FALSE, num |-> bn_mul(ssxym, ssxym),
                            den |-> bn_mul(ssxm, ssym)]]

\* one pass of the body of the for loop: the fit of one candidate, or no fit
\* where the candidate is skipped or linregress raises
candidate_fit(name, input_sizes, execution_times, raises_on_constant) ==
    IF name = "O(2^n)" /\ seq_max(input_sizes) > 20
    THEN [fitted |-> FALSE, r_squared |-> Zero]
    ELSE IF \E k \in 1..Len(input_sizes) : invalid_value(name, input_sizes[k])
    THEN [fitted |-> FALSE, r_squared |-> Zero]
    ELSE linregress([k \in 1..Len(input_sizes) |->
                        complexity_value(name, input_sizes[k])],
                    execution_times, raises_on_constant)

\* r_squared >= best_r_squared
takes_over_on_tie(r_squared, best_r_squared) ==
    r_squared_ge(r_squared, best_r_squared)

\* if r_squared > best_r_squared
takes_over(r_squared, best_r_squared) ==
    r_squared_gt(r_squared, best_r_squared)

\* the for loop over self.complexity_functions from candidate i on
RECURSIVE fit_loop(_, _, _, _, _)
fit_loop(i, best, input_sizes, execution_times, raises_on_constant) ==
    IF i > Len(complexity_functions) THEN best
    ELSE LET name == complexity_functions[i]
             f == candidate_fit(name, input_sizes, execution_times,
                                raises_on_constant)
             nxt == IF f.fitted /\ takes_over(f.r_squared, best.r_squared)
                    THEN [best_fit |-> name, r_squared |-> f.r_squared]
                    ELSE best
         IN fit_loop(i + 1, nxt, input_sizes, execution_times,
                     raises_on_constant)

\* analyze_time_complexity: best_fit (best_fit or "O(n)") and r_squared
analyze_time_complexity(input_sizes, execution_times, raises_on_constant) ==
    IF Len(input_sizes) < 3 THEN [best_fit |-> "O(n)", r_squared |-> Zero]
    ELSE LET best == fit_loop(1, [best_fit |-> "", r_squared |-> MinusOne],
                              input_sizes, execution_times,
                              raises_on_constant)
         IN [best_fit |-> IF best.best_fit = "" THEN "O(n)"
                          ELSE best.best_fit,
             r_squared |-> best.r_squared]

\* the largest constant of the generated measurements
MaxC == 3

\* the reference sizes and a set of small sizes
ReferenceSizes == <<100, 500, 1000, 5000, 10000>>

SmallSizes == <<0, 1, 2, 4, 8>>

\* the subsequences of l with at least two elements
SubSeqs(l) ==
    {s \in UNION {[1..m -> 1..Len(l)] : m \in 2..Len(l)} :
        \A k \in 1..(Len(s) - 1) : s[k] < s[k + 1]}

Pick(l, s) == [k \in 1..Len(s) |-> l[s[k]]]

SizeLists ==
    {Pick(ReferenceSizes, s) : s \in SubSeqs(ReferenceSizes)}
        \cup {Pick(SmallSizes, s) : s \in SubSeqs(SmallSizes)}
        \cup {<<100, 100, 100>>, <<1, 2, 2>>}

\* measurements c * g(n) for a growth function g
measurements(g, c, sizes) ==
    [k \in 1..Len(sizes) |-> bn_mul(bn(c), complexity_value(g, sizes[k]))]

FitInputs ==
    {[input_sizes |-> sizes,
      execution_times |-> measurements(g, c, sizes),
      raises_on_constant |-> b] :
        <<sizes, g, c, b>> \in
          {q \in SizeLists
                   \X {complexity_functions[k] :
                          k \in 1..Len(complexity_functions)}
                   \X (1..MaxC) \X BOOLEAN :
             /\ \A k \in 1..Len(q[1]) : ~ invalid_value(q[2], q[1][k])
             /\ q[2] = "O(2^n)" => seq_max(q[1]) <= 20}}

InitFit ==
    /\ InitGateway
    /\ InitEngine
    /\ args \in FitInputs
    /\ result = <<>>
    /\ local = <<>>

\* a call of analyze_time_complexity
fit_call ==
    /\ result = <<>>
    /\ result' = <<analyze_time_complexity(args.input_sizes,
                                           args.execution_times,
                                           args.raises_on_constant)>>
    /\ UNCHANGED <<gatewayVars, analyticsVars, engineVars, args, local>>

NextFit == fit_call

SpecFit == InitFit /\ [][NextFit]_vars

(***************************************************************************)
(* TestFramework.run_test_suite                                            *)
(***************************************************************************)
\* the most custom test cases handed to run_test_suite
MaxCustom == 2

\* the most passed results a finished run reports
MaxPassed == 2

\* self.test_suites: the declared test cases and benchmarks of each suite
test_suites ==
    [two_sum |-> [test_cases |-> 8, benchmarks |-> 5],
     binary_search |-> [test_cases |-> 8, benchmarks |-> 0],
     container_water |-> [test_cases |-> 6, benchmarks |-> 0]]

\* the algorithm names a caller passes
SuiteNames == DOMAIN test_suites \cup {"merge_sort"}

\* the suite run_test_suite works on: the stored one, or a suite made of the
\* custom test cases, which declares no benchmarks
suite_of(a) ==
    IF a.custom_test_cases = 0 THEN test_suites[a.algorithm_name]
    ELSE [test_cases |-> a.custom_test_cases, benchmarks |-> 0]

\* a failure result that counts no case as failed
wholly_failed_uncounted(suite) ==
    [total_tests |-> suite.test_cases, passed_tests |-> 0,
     failed_tests |-> 0, test_results |-> 0]

\* the TestSuiteResult of the except branch of run_test_suite
wholly_failed(suite) ==
    [total_tests |-> suite.test_cases, passed_tests |-> 0,
     failed_tests |-> suite.test_cases, test_results |-> 0]

\* the TestSuiteResult of _execute_tests for a run that reported results, of
\* which passed have passed
executed(suite, results, passed) ==
    LET total_tests == suite.test_cases + suite.benchmarks + 2 IN
      [total_tests |-> total_tests, passed_tests |-> passed,
       failed_tests |-> total_tests - passed, test_results |-> results]

\* before the call: nothing of the test sandbox exists
NoRun == [pc |-> "enter", temp_dir |-> FALSE, container |-> FALSE,
          dir_exists |-> FALSE, container_exists |-> FALSE,
          failed_at |-> "none"]

InitTests ==
    /\ InitGateway
    /\ InitEngine
    /\ args \in [algorithm_name : SuiteNames, custom_test_cases : 0..MaxCustom]
    /\ result = <<>>
    /\ local = NoRun

\* what no step of run_test_suite touches
testsFrame == <<gatewayVars, analyticsVars, engineVars, args>>

\* the check of the algorithm name, ahead of the try block
rt_enter ==
    /\ local.pc = "enter"
    /\ local' = [local EXCEPT !.pc =
          IF args.algorithm_name \notin DOMAIN test_suites
             /\ args.custom_test_cases = 0
          THEN "raised" ELSE "mkdtemp"]
    /\ UNCHANGED <<testsFrame, result>>

\* the step of the try block at position at goes well or raises
rt_step(at, next, ok) ==
    /\ local.pc = at
    /\ local' = IF ok THEN [local EXCEPT !.pc = next]
                ELSE [local EXCEPT !.pc = "except", !.failed_at = at]

\* temp_dir = tempfile.mkdtemp()
rt_mkdtemp ==
    /\ \E ok \in BOOLEAN :
          /\ local.pc = "mkdtemp"
          /\ local' = IF ok
                      THEN [local EXCEPT !.pc = "generate", !.temp_dir = TRUE,
                                         !.dir_exists = TRUE]
                      ELSE [local EXCEPT !.pc = "except",
                                         !.failed_at = "mkdtemp"]
    /\ UNCHANGED <<testsFrame, result>>

\* self._generate_test_files(temp_dir, suite, algorithm_code)
rt_generate ==
    /\ \E ok \in BOOLEAN : rt_step("generate", "create", ok)
    /\ UNCHANGED <<testsFrame, result>>

\* container = self._create_test_container(temp_dir)
rt_create ==
    /\ \E ok \in BOOLEAN :
          /\ local.pc = "create"
          /\ local' = IF ok
                      THEN [local EXCEPT !.pc = "execute", !.container = TRUE,
                                         !.container_exists = TRUE]
                      ELSE [local EXCEPT !.pc = "except",
                                         !.failed_at = "create"]
    /\ UNCHANGED <<testsFrame, result>>

\* result = self._execute_tests(container, suite), which re-raises what
\* container.wait or container.logs raise; return result
rt_execute ==
    /\ local.pc = "execute"
    /\ \/ \E results \in 0..MaxPassed : \E passed \in 0..results :
            /\ result' = <<executed(suite_of(args), results, passed)>>
            /\ local' = [local EXCEPT !.pc = "finally"]
       \/ /\ local' = [local EXCEPT !.pc = "except", !.failed_at = "execute"]
          /\ UNCHANGED result
    /\ UNCHANGED testsFrame

\* except Exception: return TestSuiteResult(...)
rt_except ==
    /\ local.pc = "except"
    /\ result' = <<wholly_failed(suite_of(args))>>
    /\ local' = [local EXCEPT !.pc = "finally"]
    /\ UNCHANGED testsFrame

\* finally: container.stop, container.remove, shutil.rmtree; then the
\* result reaches the caller
rt_finally ==
    /\ local.pc = "finally"
    /\ local' = [local EXCEPT
          !.pc = "returned",
          !.container_exists = IF local.container THEN FALSE ELSE @,
          !.dir_exists = IF local.temp_dir THEN FALSE ELSE @]
    /\ UNCHANGED <<testsFrame, result>>

NextTests ==
    \/ rt_enter
    \/ rt_mkdtemp
    \/ rt_generate
    \/ rt_create
    \/ rt_execute
    \/ rt_except
    \/ rt_finally

SpecTests == InitTests /\ [][NextTests]_vars

(***************************************************************************)
(* calls of validate_code_security                                         *)
(***************************************************************************)
InitValidate ==
    /\ InitGateway
    /\ InitEngine
    /\ args \in Programs
    /\ result = <<>>
    /\ local \in [file_system_access : BOOLEAN]

\* a call of validate_code_security
validate_call ==
    /\ result = <<>>
    /\ result' = <<validate_with(local, join(args))>>
    /\ UNCHANGED <<gatewayVars, analyticsVars, engineVars, args, local>>

NextValidate == validate_call

SpecValidate == InitValidate /\ [][NextValidate]_vars

(***************************************************************************)
(* the scans of validate_code_security, one after the other                *)
(***************************************************************************)
\* one line per kind of finding, a line with two and a line without any
ScanLines ==
    {[text |-> "v = eval(x)", calls |-> {"eval"}, imports |-> {}],
     [text |-> "n = getattr(o, 'k')", calls |-> {}, imports |-> {}],
     [text |-> "v = eval(getattr(o, 'k'))", calls |-> {"eval"},
      imports |-> {}],
     [text |-> "import socket", calls |-> {}, imports |-> {"socket"}],
     [text |-> "f.write(s)", calls |-> {}, imports |-> {}],
     [text |-> "return x", calls |-> {}, imports |-> {}]}

\* the orders in which the four scans can be run
Orders ==
    {o \in [1..Len(ScanOrder) -> Elements(ScanOrder)] :
        \A i, j \in 1..Len(ScanOrder) : i # j => o[i] # o[j]}

InitScans ==
    /\ InitGateway
    /\ InitEngine
    /\ args \in UNION {[1..n -> ScanLines] : n \in 1..MaxLines}
    /\ result = <<>>
    /\ local \in [file_system_access : BOOLEAN, order : Orders]

\* the four scans run in the order local.order; result: the report before
\* the first scan and after each scan
scans_call ==
    /\ result = <<>>
    /\ result' = scan_trace(local.order, local, join(args), EmptyReport)
    /\ UNCHANGED <<gatewayVars, analyticsVars, engineVars, args, local>>

SpecScans == InitScans /\ [][scans_call]_vars

(***************************************************************************)
(* SecurityManager.monitor_execution                                       *)
(***************************************************************************)
\* SecurityConfig defaults
max_memory_mb == 128
max_cpu_percent == 50
max_execution_time == 30
max_open_files == 64

\* the readings of one monitoring step: each at its limit or just above it
Usages ==
    [memory_mb : {max_memory_mb, max_memory_mb + 1},
     cpu_percent : {max_cpu_percent, max_cpu_percent + 1},
     execution_time : {max_execution_time, max_execution_time + 1},
     open_files : {max_open_files, max_open_files + 1},
     network_connections : {0, 1}]

\* the violations _check_resource_violations finds, by the words their
\* messages start with
violations_of(config, usage) ==
    (IF usage.memory_mb > max_memory_mb THEN {"Memory usage"} ELSE {})
      \cup (IF usage.cpu_percent > max_cpu_percent
            THEN {"CPU usage"} ELSE {})
      \cup (IF usage.execution_time > max_execution_time
            THEN {"Execution time"} ELSE {})
      \cup (IF usage.open_files > max_open_files THEN {"Open files"} ELSE {})
      \cup (IF ~ config.network_access /\ usage.network_connections > 0
            THEN {"Unauthorized network"} ELSE {})

\* critical_violations
critical_violations == {"Memory usage", "Execution time", "Unauthorized network"}

\* terminate_execution: the process is terminated and its entry deleted
terminate_execution(m, session_id) ==
    IF session_id \in m.active_processes
    THEN [m EXCEPT !.active_processes = @ \ {session_id},
                   !.terminated = @ \cup {session_id}]
    ELSE m

\* _check_resource_violations: violations are stored, a critical one
\* terminates the session
check_resource_violations(m, session_id, usage) ==
    LET violations == violations_of(m, usage) IN
      IF violations = {} THEN m
      ELSE LET stored == [m EXCEPT !.violations = @ \cup violations] IN
             IF violations \cap critical_violations # {}
             THEN terminate_execution(stored, session_id)
             ELSE stored

InitMonitor ==
    /\ InitGateway
    /\ InitEngine
    /\ args \in Usages
    /\ result = <<>>
    /\ local \in [network_access : BOOLEAN, active_processes : {{}},
                  terminated : {{}}, violations : {{}}]

\* monitor_execution(session_id, process) of a live process
monitor_execution(session_id) ==
    /\ result = <<>>
    /\ result' = <<args>>
    /\ local' = check_resource_violations(
                    [local EXCEPT !.active_processes = @ \cup {session_id}],
                    session_id, args)
    /\ UNCHANGED <<gatewayVars, analyticsVars, engineVars, args>>

SpecMonitor == InitMonitor /\ [][monitor_execution("s1")]_vars

(***************************************************************************)
(* DockerExecutor.execute_algorithm as one call: from what the disk, the   *)
(* daemon and the container do to the ExecutionResult returned             *)
(***************************************************************************)
Str(s) == [str |-> s]

\* the last stdout line when the algorithm returned 3
PayloadOk ==
    "{\"success\": true, \"result\": 3, \"execution_time\": 2, \"memory_peak\": 5, \"error\": null}"
\* when the algorithm raised ValueError("boom"), and ValueError()
PayloadRaised ==
    "{\"success\": false, \"result\": null, \"execution_time\": 0, \"memory_peak\": 0, \"error\": \"boom\"}"
PayloadRaisedBare ==
    "{\"success\": false, \"result\": null, \"execution_time\": 0, \"memory_peak\": 0, \"error\": \"\"}"
\* the 25 second limit of execute.py
PayloadScriptTimeout ==
    "{\"success\": false, \"result\": null, \"execution_time\": 0, \"memory_peak\": 0, \"error\": \"Execution timeout\"}"
\* objects that lack fields, and a value that is no object
PayloadOnlySuccess == "{\"success\": true}"
PayloadNoSuccess == "{\"result\": 3, \"execution_time\": 2}"
PayloadNoError == "{\"success\": false, \"result\": null, \"execution_time\": 0}"
PayloadNumber == "42"

\* json.loads on the texts above; any other text raises JSONDecodeError
json_loads(s) ==
    CASE s = PayloadOk ->
           [type |-> "dict",
            d |-> [success |-> TRUE, result |-> Str("3"), execution_time |-> 2,
                   memory_peak |-> 5, error |-> None]]
      [] s = PayloadRaised ->
           [type |-> "dict",
            d |-> [success |-> FALSE, result |-> None, execution_time |-> 0,
                   memory_peak |-> 0, error |-> Str("boom")]]
      [] s = PayloadRaisedBare ->
           [type |-> "dict",
            d |-> [success |-> FALSE, result |-> None, execution_time |-> 0,
                   memory_peak |-> 0, error |-> Str("")]]
      [] s = PayloadScriptTimeout ->
           [type |-> "dict",
            d |-> [success |-> FALSE, result |-> None, execution_time |-> 0,
                   memory_peak |-> 0, error |-> Str("Execution timeout")]]
      [] s = PayloadOnlySuccess ->
           [type |-> "dict", d |-> [success |-> TRUE]]
      [] s = PayloadNoSuccess ->
           [type |-> "dict", d |-> [result |-> Str("3"), execution_time |-> 2]]
      [] s = PayloadNoError ->
           [type |-> "dict",
            d |-> [success |-> FALSE, result |-> None, execution_time |-> 0]]
      [] s = PayloadNumber -> [type |-> "int"]
      [] OTHER -> [type |-> "JSONDecodeError"]

\* str.strip(), which takes line ends as well
RECURSIVE strip_text(_)
strip_text(s) ==
    IF s # "" /\ SubSeq(s, 1, 1) \in Whitespace \cup {"\n"}
    THEN strip_text(from_index(s, 1))
    ELSE IF s # "" /\ SubSeq(s, Len(s), Len(s)) \in Whitespace \cup {"\n"}
         THEN strip_text(SubSeq(s, 1, Len(s) - 1))
         ELSE s

\* stdout.strip().split('\n')[-1]
last_line(stdout) ==
    LET lines == split(strip_text(stdout), "\n") IN lines[Len(lines)]

\* what the container can have written to stdout
Stdouts ==
    {"", "Traceback (most recent call last):\n",
     PayloadOk \o "\n\n", "debug\n" \o PayloadOk \o "\n\n",
     PayloadOk \o "\ndone\n",
     PayloadRaised \o "\n", PayloadRaisedBare \o "\n",
     PayloadScriptTimeout \o "\n",
     PayloadOnlySuccess \o "\n", PayloadNoSuccess \o "\n",
     PayloadNoError \o "\n", PayloadNumber \o "\n"}

\* _get_empty_metrics()
empty_metrics ==
    [cpu_percent |-> 0, memory_usage_mb |-> 0, memory_limit_mb |-> 128,
     execution_time |-> 0, peak_memory_mb |-> 0]

\* _collect_resource_metrics: the figures of container.stats() and the time
\* elapsed since start_time, or the empty metrics when stats() raises
collect_resource_metrics(env) ==
    IF env.stats = "raises" THEN empty_metrics
    ELSE [cpu_percent |-> 12, memory_usage_mb |-> 7, memory_limit_mb |-> 128,
          execution_time |-> env.elapsed, peak_memory_mb |-> 7]

\* str(e) of the exceptions of the disk and of the daemon
ExceptionText(kind) ==
    CASE kind = "mkdtemp" -> "[Errno 28] No space left on device"
      [] kind = "create" -> "409 Client Error: Conflict"
      [] kind = "wait_timeout" -> "Read timed out. (read timeout=30)"
      [] kind = "KeyError_success" -> "'success'"
      [] kind = "KeyError_result" -> "'result'"
      [] kind = "AttributeError" -> "'int' object has no attribute 'get'"

\* exit_code["StatusCode"] of a container that exited
StatusCode(wait) == IF wait = "exit0" THEN 0 ELSE 1

Raised(kind) == [raised |-> TRUE, kind |-> kind]

\* _monitor_execution(container, start_time, session_id): the result it
\* returns, or the exception that leaves it
monitor_execution_of(env) ==
    CASE env.wait = "timeout" -> Raised("wait_timeout")
      [] env.wait = "container_error" ->
           [raised |-> FALSE,
            result |-> [success |-> FALSE, result |-> None,
                        error |-> Str("Container error: exit status 1"),
                        execution_time |-> env.elapsed,
                        resource_metrics |-> empty_metrics,
                        stdout |-> "", exit_code |-> 1]]
      [] OTHER ->
           LET parsed == json_loads(last_line(env.stdout))
               exec_result ==
                   IF parsed.type = "JSONDecodeError"
                   THEN [type |-> "dict",
                         d |-> [success |-> FALSE, result |-> None,
                                execution_time |-> 0, memory_current |-> 0,
                                memory_peak |-> 0,
                                error |->
                                  Str("Failed to parse execution result")]]
                   ELSE parsed
               d == exec_result.d
           IN
             IF exec_result.type # "dict" THEN Raised("AttributeError")
             ELSE IF "success" \notin DOMAIN d THEN Raised("KeyError_success")
             ELSE IF "result" \notin DOMAIN d THEN Raised("KeyError_result")
             ELSE [raised |-> FALSE,
                   result |->
                     [success |-> d.success, result |-> d.result,
                      error |-> IF "error" \in DOMAIN d THEN d.error ELSE None,
                      execution_time |-> d.execution_time,
                      resource_metrics |-> collect_resource_metrics(env),
                      stdout |-> env.stdout,
                      exit_code |-> StatusCode(env.wait)]]

\* the except clause of execute_algorithm
failed_result(kind) ==
    [success |-> FALSE, result |-> None, error |-> Str(ExceptionText(kind)),
     execution_time |-> 0, resource_metrics |-> empty_metrics,
     stdout |-> "", exit_code |-> -1]

\* a cleanup that leaves the container as it is
container_kept(state) == state

\* the finally clause: container.stop(timeout=5) and container.remove()
container_stopped(state) == "removed"

\* _create_container is called once, whether containers.run raises or not
create_attempts(env) == 1

\* execute_algorithm: result is the ExecutionResult returned, container what
\* became of the container, runs the number of containers.run calls
execute_algorithm(env) ==
    IF env.mkdtemp = "raises"
    THEN [result |-> failed_result("mkdtemp"), container |-> "none",
          runs |-> 0]
    ELSE IF env.create = "raises"
    THEN [result |-> failed_result("create"), container |-> "none",
          runs |-> create_attempts(env)]
    ELSE LET m == monitor_execution_of(env)
             state == IF env.wait = "timeout" THEN "running" ELSE "exited"
         IN [result |-> IF m.raised THEN failed_result(m.kind) ELSE m.result,
             container |-> container_stopped(state),
             runs |-> create_attempts(env)]

\* the behaviours of the disk, the daemon and the container
Environments ==
    [mkdtemp : {"ok", "raises"}, create : {"ok", "raises"},
     wait : {"exit0", "exit1", "timeout", "container_error"}, stdout : Stdouts,
     stats : {"ok", "raises"}, elapsed : {1, 31}]

InitExecute ==
    /\ InitGateway
    /\ InitEngine
    /\ args \in Environments
    /\ result = <<>>
    /\ local = <<>>

execute_call ==
    /\ result = <<>>
    /\ result' = <<execute_algorithm(args).result>>
    /\ local' = <<execute_algorithm(args)>>
    /\ UNCHANGED <<gatewayVars, analyticsVars, engineVars, args>>

SpecExecute == InitExecute /\ [][execute_call]_vars

(***************************************************************************)
(* The gateway and frames that are no requests                             *)
(***************************************************************************)
\* a frame whose text is no JSON, and a JSON object of a type the gateway
\* does not know
NotJson == [type |-> "<not json>", sessionId |-> "none", code |-> OkCode]
UnknownType == [type |-> "PING", sessionId |-> "s1", code |-> OkCode]

\* requests that lack one field or more
LackingFrames ==
    {m \in [type : RequestTypes, sessionId : {"s1", "none"},
            code : {OkCode, ""}, testData : BOOLEAN] :
        \E f \in {"sessionId", "algorithmCode", "testData"} :
            ~ has_field(m, f)}

OddFrames ==
    {NotJson, UnknownType}
      \cup [type : {"STOP_EXECUTION"}, sessionId : SessionIds, code : {OkCode}]
      \cup LackingFrames

\* handle_client: data = json.loads(message) raises JSONDecodeError before
\* process_message is called; the except clause logs it and the finally
\* clause unregisters the client
handle_client_not_json(c) ==
    /\ Reads(c, NotJson.type)
    /\ inbox' = [inbox EXCEPT ![c] = Tail(@)]
    /\ frame' = [frame EXCEPT ![c] = NoFrame]
    /\ status' = [status EXCEPT ![c] = "none"]
    /\ outbox' = [outbox EXCEPT ![c] = <<>>]
    /\ RaiseOutsideTry(c)
    /\ UNCHANGED <<conn, clients, active_sessions, nsent, stopped, up,
                   execVars, analyticsVars>>
    /\ lastStop' = NoStop
    /\ UNCHANGED otherVars

\* process_message: the else branch sends ERROR "Unknown message type"
process_message_unknown(c) ==
    /\ Reads(c, UnknownType.type)
    /\ LET m == Head(inbox[c]) IN
         /\ inbox' = [inbox EXCEPT ![c] = Tail(@)]
         /\ frame' = [frame EXCEPT ![c] = NoFrame]
         /\ status' = [status EXCEPT ![c] = "none"]
         /\ IF conn[c] = "open"
            THEN /\ outbox' = [outbox EXCEPT ![c] =
                        send(<<>>, Msg("ERROR", m.sessionId,
                                       "Unknown message type"))]
                 /\ UNCHANGED <<pc, loop>>
            ELSE /\ outbox' = [outbox EXCEPT ![c] = <<>>]
                 /\ RaiseOutsideTry(c)
    /\ UNCHANGED <<conn, clients, active_sessions, nsent, stopped, up,
                   execVars, analyticsVars>>
    /\ lastStop' = NoStop
    /\ UNCHANGED otherVars

\* the head of the three handlers: a request without one of its fields is
\* answered with ERROR "Missing required fields" and the handler returns
handle_missing_fields(c) ==
    /\ up /\ loop = NoClient
    /\ pc[c] = "idle"
    /\ inbox[c] # <<>>
    /\ Head(inbox[c]).type \in RequestTypes
    /\ ~ all_fields(Head(inbox[c]))
    /\ LET m == Head(inbox[c]) IN
         /\ inbox' = [inbox EXCEPT ![c] = Tail(@)]
         /\ frame' = [frame EXCEPT ![c] = NoFrame]
         /\ status' = [status EXCEPT ![c] = "none"]
         /\ IF conn[c] = "open"
            THEN /\ outbox' = [outbox EXCEPT ![c] =
                        send(<<>>, Msg("ERROR", m.sessionId,
                                       "Missing required fields"))]
                 /\ UNCHANGED <<pc, loop>>
            ELSE /\ outbox' = [outbox EXCEPT ![c] = <<>>]
                 /\ RaiseOutsideTry(c)
    /\ UNCHANGED <<conn, clients, active_sessions, nsent, stopped, up,
                   execVars, analyticsVars>>
    /\ lastStop' = NoStop
    /\ UNCHANGED otherVars

NextFrames ==
    \/ \E c \in Clients : \E m \in OddFrames : ClientSend(c, m)
    \/ \E c \in Clients : ClientDisconnect(c)
    \/ \E c \in Clients : register_client(c)
    \/ \E c \in Clients : handle_client_not_json(c)
    \/ \E c \in Clients : process_message_unknown(c)
    \/ \E c \in Clients : handle_missing_fields(c)
    \/ \E c \in Clients : handle_stop_execution(c)
    \/ \E c \in Clients : unregister_client(c)

SpecFrames == Init /\ [][NextFrames]_vars

\* the gateway with requests and with frames that are none
NextRejects == Next \/ NextFrames

SpecRejects == Init /\ [][NextRejects]_vars

(***************************************************************************)
(* EnhancedWebSocketServer._handle_analytics_update, the subscriber of the *)
(* analytics engine                                                        *)
(***************************************************************************)
MaxEvents == 3

\* the events and the thread that raises each: add_performance_point is
\* called by the handlers on the event-loop thread, trend_update and
\* metrics_update come from _analytics_loop on its own thread
Events == {"performance_point", "trend_update", "metrics_update"}
thread_of(event) ==
    IF event = "performance_point" THEN "event_loop" ELSE "analytics"

\* asyncio.create_task needs the running loop of the calling thread
create_task(thread) ==
    IF thread = "event_loop" THEN "scheduled" ELSE "RuntimeError"

InitBroadcast ==
    /\ InitGateway
    /\ InitEngine
    /\ args = <<>>
    /\ result = <<>>
    /\ local = [clients |-> {}, tasks |-> <<>>, handed |-> <<>>,
                broadcasts |-> <<>>]

\* a client connects or goes: self.clients.add / discard
broadcast_client(c) ==
    /\ local' = [local EXCEPT !.clients =
                    IF c \in @ THEN @ \ {c} ELSE @ \cup {c}]
    /\ UNCHANGED <<gatewayVars, analyticsVars, engineVars, args, result>>

\* _notify_subscribers calls _handle_analytics_update(event_type, data): the
\* broadcast is scheduled, or create_task raises and _notify_subscribers
\* logs the exception
handle_analytics_update(event) ==
    /\ Len(local.handed) < MaxEvents
    /\ local' = [local EXCEPT
          !.handed = Append(@, event),
          !.tasks = IF create_task(thread_of(event)) = "scheduled"
                    THEN Append(@, event) ELSE @]
    /\ UNCHANGED <<gatewayVars, analyticsVars, engineVars, args, result>>

\* the scheduled _broadcast_to_clients runs: one send per connected client
broadcast_to_clients ==
    /\ local.tasks # <<>>
    /\ local' = [local EXCEPT
          !.tasks = Tail(@),
          !.broadcasts = Append(@, [event |-> Head(local.tasks),
                                    to |-> local.clients])]
    /\ UNCHANGED <<gatewayVars, analyticsVars, engineVars, args, result>>

NextBroadcast ==
    \/ \E c \in Clients : broadcast_client(c)
    \/ \E e \in Events : handle_analytics_update(e)
    \/ broadcast_to_clients

SpecBroadcast == InitBroadcast /\ [][NextBroadcast]_vars

(***************************************************************************)
(* The gateway while the connections stay open and the process runs: the   *)
(* event loop gives every task that can run its turn, and the blocking     *)
(* calls return (container.wait has a timeout)                             *)
(***************************************************************************)
ServerOf(c) ==
    \/ register_client(c)
    \/ handle_algorithm_execution(c)
    \/ exec_call(c)
    \/ ea_materialize(c)
    \/ ea_create(c)
    \/ ea_monitor(c)
    \/ ea_finally(c)
    \/ exec_ret(c)
    \/ exec_completed(c)
    \/ handler_finally(c)
    \/ handle_performance_benchmark(c)
    \/ bench_call(c)
    \/ bench_ret(c)
    \/ bench_final(c)
    \/ handle_test_execution(c)
    \/ test_call(c)
    \/ tf_materialize(c)
    \/ tf_create(c)
    \/ tf_execute(c)
    \/ tf_finally(c)
    \/ test_ret(c)
    \/ handle_stop_execution(c)

NextServed ==
    \/ \E c \in Clients : \E m \in Messages : ClientSend(c, m)
    \/ \E c \in Clients : ServerOf(c)

SpecServed ==
    Init /\ [][NextServed]_vars /\ \A c \in Clients : WF_vars(ServerOf(c))

(***************************************************************************)
(* SecurityManager.get_security_report                                     *)
(***************************************************************************)
\* the sum over self.active_processes.items(): monitor_execution(sid, proc)
\* for each session in turn; once a call has deleted an entry the iteration
\* over the dictionary raises RuntimeError
RECURSIVE report_loop(_, _, _)
report_loop(m, todo, usages) ==
    IF todo = <<>> THEN [m |-> m, raised |-> FALSE]
    ELSE LET sid == Head(todo)
             after == check_resource_violations(m, sid, usages[sid])
         IN IF after.active_processes # m.active_processes
            THEN [m |-> after, raised |-> TRUE]
            ELSE report_loop(after, Tail(todo), usages)

\* the sessions in the order of the dictionary
ordered(sessions) ==
    SelectSeq(<<"s1", "s2">>, LAMBDA sid : sid \in sessions)

InitReport ==
    /\ InitGateway
    /\ InitEngine
    /\ args \in [SessionIds -> Usages]
    /\ result = <<>>
    /\ local \in [network_access : BOOLEAN,
                  active_processes : {{"s1"}, {"s1", "s2"}},
                  terminated : {{}}, violations : {{}}]

\* get_security_report()
get_security_report ==
    /\ result = <<>>
    /\ LET r == report_loop(local, ordered(local.active_processes), args) IN
         /\ local' = r.m
         /\ result' = <<IF r.raised THEN "RuntimeError" ELSE "report">>
    /\ UNCHANGED <<gatewayVars, analyticsVars, engineVars, args>>

SpecReport == InitReport /\ [][get_security_report]_vars

(***************************************************************************)
(* Properties                                                              *)
(***************************************************************************)
\* the key of the execute_algorithm call the handler of c has just left
ReturnedKey(c) ==
    IF pc[c] = "exec_ret" THEN PlainKey(frame[c].sid)
    ELSE BenchKey(frame[c].sid, frame[c].i)

\* C1: when execute_algorithm has returned to its caller, on whatever path,
\* the container it created is gone from the daemon, its key is no longer in
\* active_containers and its scratch directory is deleted.
C1_TeardownOnEveryExit ==
    \A c \in Clients :
        pc[c] \in {"exec_ret", "bench_ret"} =>
            /\ docker = {}
            /\ ReturnedKey(c) \notin DOMAIN active_containers
            /\ tempdirs = {}

\* a call of execute_algorithm has returned without success
C1_Witness ==
    \E c \in Clients : pc[c] \in {"exec_ret", "bench_ret"} /\ ~ frame[c].success

\* C2: no container exists that was created for code whose security report
\* has safe = false.
C2_NoContainerForUnsafeCode ==
    \A k \in docker : validate_code_security(k.code).safe

\* C3: once the session of a request is in a terminal state (completed,
\* failed, or acknowledged as stopped), no sandbox run is in progress for it.
C3_NoRunAfterTerminal ==
    \A c \in Clients : status[c] \in Terminal => call.owner # c

C5_SecondStopNotFound ==
    [][(lastStop'.op = "handle_stop_execution" /\ lastStop'.repeat) =>
          /\ ~ lastStop'.found
          /\ active_sessions' = active_sessions
          /\ active_containers' = active_containers
          /\ conn[lastStop'.by] = "open" =>
                /\ outbox'[lastStop'.by] =
                      <<Msg("ERROR", lastStop'.sid, "Session not found")>>
                /\ pc'[lastStop'.by] = "idle"]_vars

\* the second STOP_EXECUTION for a session that the first one found in the
\* registry and removed while its handler was in progress
C5_Witness ==
    /\ lastStop.op = "handle_stop_execution"
    /\ lastStop.repeat
    /\ \E c \in Clients : status[c] = "stopped" /\ frame[c].sid = lastStop.sid

\* C6: unregister_client invokes stop_execution for every session whose
\* record names the client and removes it from the registry; the records of
\* the other clients' sessions stay as they are.
C6_DisconnectStopsOwnSessions ==
    [][\A c \in Clients :
          (pc[c] # "gone" /\ pc'[c] = "gone") =>
              \A sid \in SessionIds :
                  IF active_sessions[sid].client_id = c
                  THEN /\ active_sessions'[sid] = NoSession
                       /\ PlainKey(sid) \in lastStop'.keys
                  ELSE active_sessions'[sid] = active_sessions[sid]]_vars

\* unregister_client has removed a session of the client while a session of
\* another client is registered
C6_Witness ==
    /\ lastStop.op = "unregister_client"
    /\ lastStop.found
    /\ \E sid \in SessionIds : active_sessions[sid] # NoSession

\* the positions in box of the messages of a type
Positions(box, type) == {i \in 1..Len(box) : box[i].type = type}

\* every message of type later comes after some message of type earlier
Precedes(box, earlier, later) ==
    \A i \in Positions(box, later) : \E j \in Positions(box, earlier) : j < i

\* C7: among the messages sent for the session of one request, EXECUTION_STARTED precedes
\* EXECUTION_STEP, which precedes EXECUTION_COMPLETED; BENCHMARK_STARTED
\* precedes every BENCHMARK_PROGRESS and each of these BENCHMARK_COMPLETED;
\* TESTING_STARTED precedes TESTING_COMPLETED.
C7_MessagesInOrder ==
    \A c \in Clients :
        LET box == outbox[c] IN
          /\ Precedes(box, "EXECUTION_STARTED", "EXECUTION_STEP")
          /\ Precedes(box, "EXECUTION_STARTED", "EXECUTION_COMPLETED")
          /\ Precedes(box, "EXECUTION_STEP", "EXECUTION_COMPLETED")
          /\ Precedes(box, "BENCHMARK_STARTED", "BENCHMARK_PROGRESS")
          /\ Precedes(box, "BENCHMARK_STARTED", "BENCHMARK_COMPLETED")
          /\ \A i \in Positions(box, "BENCHMARK_COMPLETED") :
                \A j \in Positions(box, "BENCHMARK_PROGRESS") : j < i
          /\ Precedes(box, "TESTING_STARTED", "TESTING_COMPLETED")

\* a benchmark has reported progress and completed
C7_Witness ==
    \E c \in Clients :
        /\ Positions(outbox[c], "BENCHMARK_PROGRESS") # {}
        /\ Positions(outbox[c], "BENCHMARK_COMPLETED") # {}

\* C8: while the sandbox of one session executes, the task of another client
\* with a frame waiting can run.
C8_SandboxOffTheEventLoop ==
    \A c \in Clients :
        (call.phase = "monitor" /\ call.owner # c /\ pc[c] = "idle"
            /\ inbox[c] # <<>>) => CanRun(c)

\* C9: no container is torn down a second time, and every executor container
\* that exists in the daemon is a value of active_containers.
C9_OneTeardownNoLeak ==
    /\ retorn = {}
    /\ \A k \in docker :
          k.image = "algorithm-executor" =>
              \E key \in DOMAIN active_containers :
                  active_containers[key] = k.id

\* stop_execution was invoked for a session whose handler went on to call
\* execute_algorithm, which has returned from its cleanup
C9_Witness ==
    \E c \in Clients :
        status[c] = "stopped" /\ pc[c] \in {"exec_ret", "bench_ret"}

\* C11: in every delivery of an event no exception leaves
\* _notify_subscribers, every callback subscribed at that moment is called,
\* in order, the list of subscribers is as it was, and the loop thread that
\* delivered the event goes on with its pass.
C11_SubscriberExceptionsContained ==
    lastNotify.event # "none" =>
        /\ ~ lastNotify.escaped
        /\ lastNotify.called = lastNotify.subs
        /\ subscribers = lastNotify.subs
        /\ lastNotify.by = "loop" => tpc \in {"metrics", "sleep"}

\* the loop delivered an event to two subscribers of which the first raised
C11_Witness ==
    /\ lastNotify.by = "loop"
    /\ Len(lastNotify.subs) >= 2
    /\ lastNotify.subs[1] \in lastNotify.raised
    /\ lastNotify.subs[2] \notin lastNotify.raised

\* C12: the loop thread ends only when running is false, whatever sessions
\* the registry holds; a stop_analytics call waits for a thread only if one
\* was started, and it returns; once it has returned after a start the thread
\* has ended and the loop delivers no further event.
C12_LoopRunsUntilStopped ==
    /\ [](tpc = "done" => ~ running)
    /\ [](stopping => analytics_thread # "none")
    /\ [](stop_returned => tpc = "done")
    /\ [][(stop_returned /\ stop_returned') => lastNotify'.by # "loop"]_vars
    /\ (stopping ~> stop_returned)

\* stop_analytics has returned after the loop ran while no session existed
\* and events had been delivered to a subscriber
C12_Witness ==
    /\ stop_returned
    /\ subscribers # <<>>
    /\ \A sid \in SessionIds : active_sessions[sid] = NoSession

\* the last n elements of a sequence
LastN(q, n) == IF Len(q) <= n THEN q ELSE SubSeq(q, Len(q) - n + 1, Len(q))

\* the points added for an algorithm, in the order of the calls
AddedFor(alg) == SelectSeq(added, LAMBDA p : p.algorithm_name = alg)

\* C10: the global history and every algorithm's history hold at most
\* max_history points, and exactly the most recently added ones in the order
\* in which they were added.
C10_BoundedFifoHistory ==
    /\ Len(performance_history) <= max_history
    /\ performance_history = LastN(added, max_history)
    /\ \A alg \in Algorithms :
          IF alg \in DOMAIN algorithm_trends
          THEN /\ Len(algorithm_trends[alg]) <= max_history
               /\ algorithm_trends[alg] = LastN(AddedFor(alg), max_history)
          ELSE AddedFor(alg) = <<>>

\* both histories have evicted a point
C10_Witness ==
    /\ Len(added) > max_history
    /\ \E alg \in Algorithms : Len(AddedFor(alg)) > max_history

\* the trend a call of get_algorithm_trend has just returned
IsTrendCall == result # <<>> /\ Len(args) = 1 /\ args[1] \in Asked

\* C13: a call of get_algorithm_trend(a) returns None exactly when fewer than
\* two of the points added for a are retained; otherwise the trend counts the
\* retained points and is taken over them, whatever earlier calls returned.
C13_TrendFromRetainedPoints ==
    IsTrendCall =>
        LET retained == LastN(AddedFor(args[1]), max_history) IN
          /\ (result[1] = None) <=> (Len(retained) < 2)
          /\ result[1] # None =>
               /\ result[1].data_points = Len(retained)
               /\ result[1].over =
                    [k \in 1..Len(retained) |-> retained[k].timestamp]

\* a trend returned after a point of the algorithm was evicted
C13_Witness ==
    /\ IsTrendCall
    /\ result[1] # None
    /\ Len(AddedFor(args[1])) > max_history

\* _detect_performance_regression has returned for a history of six points
SixPointCall == result # <<>> /\ args \in [1..6 -> Times]

\* each of the last three times is 1.5 times the mean of the first three
LastThreeHalfAgainHigher ==
    \A k \in 4..6 : 2 * args[k] = args[1] + args[2] + args[3]

\* the largest of the six times exceeds the smallest by at most a tenth of
\* itself
WithinTenPercent ==
    \A j, k \in 1..6 : 9 * args[j] <= 10 * args[k]

\* C14 as stated: for every history of six points, last three at 1.5 times
\* the mean of the first three gives regression, six times within 10% give
\* none.
C14_Original ==
    SixPointCall =>
        /\ LastThreeHalfAgainHigher => result[1] = TRUE
        /\ WithinTenPercent => result[1] = FALSE

\* C14: for every history of six points whose first three times are not all
\* zero, last three at 1.5 times the mean of the first three gives
\* regression; six times within 10% of each other never give regression.
C14_RegressionOnSixPoints ==
    SixPointCall =>
        /\ (LastThreeHalfAgainHigher /\ args[1] + args[2] + args[3] > 0)
              => result[1] = TRUE
        /\ WithinTenPercent => result[1] = FALSE

\* the detector flagged a history whose last three times are 1.5 times the
\* mean of the first three
C14_Witness ==
    /\ SixPointCall
    /\ LastThreeHalfAgainHigher
    /\ args[1] + args[2] + args[3] > 0
    /\ result[1] = TRUE

\* analyze_time_complexity has returned for at least three sizes
FitCall == result # <<>> /\ Len(args.input_sizes) >= 3

\* the fit of candidate k for the arguments of the call
FitOf(k) == candidate_fit(complexity_functions[k], args.input_sizes,
                          args.execution_times, args.raises_on_constant)

\* the fits of all candidates
Fits == [k \in 1..Len(complexity_functions) |-> FitOf(k)]

\* the candidates that were fitted
Fitted == {k \in 1..Len(complexity_functions) : FitOf(k).fitted}

\* C15: when some candidate was fitted, the label returned is that of a
\* fitted candidate whose R^2 no fitted candidate exceeds and no fitted
\* candidate earlier in the order O(1), O(log n), O(n), O(n log n), O(n^2),
\* O(n^3), O(2^n) attains, and the R^2 returned is that candidate's.
C15_FirstHighestRSquared ==
    FitCall =>
        LET fits == Fits
            fitted == {k \in DOMAIN fits : fits[k].fitted}
        IN fitted # {} =>
             \E k \in fitted :
               /\ result[1].best_fit = complexity_functions[k]
               /\ r_squared_ge(result[1].r_squared, fits[k].r_squared)
               /\ r_squared_ge(fits[k].r_squared, result[1].r_squared)
               /\ \A j \in fitted :
                    /\ r_squared_ge(fits[k].r_squared, fits[j].r_squared)
                    /\ j < k =>
                         r_squared_gt(fits[k].r_squared, fits[j].r_squared)

\* two fitted candidates attain the highest R^2 and the earlier one of them,
\* which is not the first fitted candidate, was returned
C15_Witness ==
    /\ FitCall
    /\ LET fits == Fits
           fitted == {k \in DOMAIN fits : fits[k].fitted}
       IN \E k, j, i \in fitted :
            /\ i < k /\ k < j
            /\ result[1].best_fit = complexity_functions[k]
            /\ r_squared_ge(fits[j].r_squared, fits[k].r_squared)

\* 10 * r_squared >= 9
AtLeastNineTenths(r) ==
    ~ r.neg /\ bn_cmp(bn_mul(bn(10), r.num), bn_mul(bn(9), r.den)) >= 0

\* the call was made on the reference sizes with measurements c * g(n)
ReferenceCall(g) ==
    /\ result # <<>>
    /\ args.input_sizes = ReferenceSizes
    /\ \E c \in 1..MaxC :
          args.execution_times = measurements(g, c, ReferenceSizes)

\* C16: on the reference sizes, measurements c * n give the label O(n) with
\* R^2 of at least 0.9 and measurements c * n^2 give the label O(n^2).
C16_RecoversGrowthModel ==
    /\ ReferenceCall("O(n)") =>
          /\ result[1].best_fit = "O(n)"
          /\ AtLeastNineTenths(result[1].r_squared)
    /\ ReferenceCall("O(n^2)") => result[1].best_fit = "O(n^2)"

\* a fit of quadratic measurements on the reference sizes was returned in
\* which the linear and the linearithmic candidate were fitted too
C16_Witness ==
    /\ ReferenceCall("O(n^2)")
    /\ {3, 4, 5} \subseteq Fitted
    /\ result[1].best_fit = "O(n^2)"

\* run_test_suite has returned a TestSuiteResult
Returned == local # <<>> /\ local.pc = "returned"

\* C17: every TestSuiteResult that run_test_suite returns has total_tests
\* equal to the declared test cases plus the declared benchmarks plus 2.
C17_TotalCountsCasesBenchmarksAndTwo ==
    Returned =>
        result[1].total_tests =
            suite_of(args).test_cases + suite_of(args).benchmarks + 2

\* C18: a failure inside the try block never leaves run_test_suite as an
\* exception; the result returned after one has no passed test, counts every
\* declared case as failed, failed_tests = total_tests, and neither the test
\* container nor the scratch directory exists any more.
C18_SandboxFailureIsWhollyFailedResult ==
    /\ (local # <<>> /\ local.pc = "raised") => local.failed_at = "none"
    /\ (Returned /\ local.failed_at # "none") =>
          /\ result[1].passed_tests = 0
          /\ result[1].failed_tests = result[1].total_tests
          /\ result[1].failed_tests = suite_of(args).test_cases
          /\ ~ local.container_exists
          /\ ~ local.dir_exists

\* run_test_suite returned after the container was created and the run raised
C18_Witness ==
    /\ Returned
    /\ local.failed_at = "execute"
    /\ local.container /\ local.temp_dir

\* the modules imported by the lines of the code
Imported == UNION {args[k].imports : k \in 1..Len(args)}

\* the blocked functions called by the lines of the code
Called == UNION {args[k].calls : k \in 1..Len(args)}

\* the code imports allowlisted modules only and f is the one blocked
\* function it calls, in one line
OnlyBlockedCall(f) ==
    /\ Imported \subseteq Elements(allowed_imports)
    /\ Cardinality({k \in 1..Len(args) : args[k].calls # {}}) = 1
    /\ Called = {f}

\* C19: for code whose only disallowed construct is one call of a blocked
\* function f, the report has safe = false, risk level HIGH and a blocked
\* item that names f.
C19_BlockedCallIsHighRisk ==
    result # <<>> =>
        \A f \in Elements(blocked_functions) :
            OnlyBlockedCall(f) =>
                /\ result[1].safe = FALSE
                /\ result[1].risk_level = "HIGH"
                /\ ("Blocked function: " \o f)
                      \in Elements(result[1].blocked_items)

\* a report for code that imports an allowlisted module and then calls
\* compile
C19_Witness ==
    /\ result # <<>>
    /\ Len(args) = 2
    /\ args[1].imports # {}
    /\ OnlyBlockedCall("compile")
    /\ result[1].safe = FALSE

\* C20: for code that imports allowlisted modules only and calls no blocked
\* function the report has risk level LOW and safe = true.
C20_AllowlistedCodeIsLowRisk ==
    (result # <<>> /\ Imported \subseteq Elements(allowed_imports)
                   /\ Called = {}) =>
        /\ result[1].risk_level = "LOW"
        /\ result[1].safe = TRUE

\* LOW < MEDIUM < HIGH
Severity(level) == CASE level = "LOW" -> 0 [] level = "MEDIUM" -> 1
                     [] level = "HIGH" -> 2

\* the severity of the findings of a report: a blocked item is HIGH, a
\* warning MEDIUM
MaxSeverity(r) == IF r.blocked_items # <<>> THEN 2
                  ELSE IF r.warnings # <<>> THEN 1 ELSE 0

\* C21: from scan to scan the risk level never decreases, after every scan
\* it is the highest severity of the findings made so far, and the level
\* reported at the end is the one the scans give in the order of the code.
C21_RiskLevelOnlyEscalates ==
    result # <<>> =>
        /\ \A k \in 1..(Len(result) - 1) :
              Severity(result[k].risk_level)
                 <= Severity(result[k + 1].risk_level)
        /\ \A k \in 1..Len(result) :
              Severity(result[k].risk_level) = MaxSeverity(result[k])
        /\ result[Len(result)].risk_level =
              validate_with(local, join(args)).risk_level

\* a warning was added to a report that was already HIGH, and a blocked item
\* to a report that was MEDIUM
C21_Witness ==
    /\ result # <<>>
    /\ \E k \in 1..(Len(result) - 1) :
          /\ result[k].risk_level = "HIGH"
          /\ Len(result[k + 1].warnings) > Len(result[k].warnings)
    /\ \E k \in 1..(Len(result) - 1) :
          /\ result[k].risk_level = "MEDIUM"
          /\ result[k + 1].risk_level = "HIGH"

\* a file operation is in the text and no name of a blocked function
OnlyFileOperations ==
    /\ \E k \in 1..Len(file_operations) :
          contains(join(args), file_operations[k])
    /\ \A k \in 1..Len(blocked_functions) :
          ~ contains(join(args), blocked_functions[k])

\* C22: with file_system_access enabled no file operation is a blocked item,
\* and code whose findings are file operations only is reported safe with no
\* blocked items; with it disabled that code is reported unsafe.
C22_FileOperationsBlockOnlyWhenDisabled ==
    result # <<>> =>
        /\ local.file_system_access =>
              \A k \in 1..Len(file_operations) :
                 ("File operation: " \o file_operations[k])
                    \notin Elements(result[1].blocked_items)
        /\ (local.file_system_access /\ OnlyFileOperations) =>
              /\ result[1].safe = TRUE
              /\ result[1].blocked_items = <<>>
        /\ (~ local.file_system_access /\ OnlyFileOperations) =>
              result[1].safe = FALSE

\* with file_system_access enabled, a report for code that reads a file
C22_Witness ==
    /\ result # <<>>
    /\ local.file_system_access
    /\ OnlyFileOperations
    /\ result[1].safe = TRUE

\* C23: after a monitoring step that found a violation the session's process
\* has been terminated and is no longer among the active processes.
C23_ViolationTerminatesSession ==
    (result # <<>> /\ violations_of(local, args) # {}) =>
        /\ "s1" \in local.terminated
        /\ "s1" \notin local.active_processes

\* an execute_algorithm call in which container.wait() ran into the timeout
TimedOutCall ==
    /\ result # <<>>
    /\ args.mkdtemp = "ok" /\ args.create = "ok" /\ args.wait = "timeout"

\* the environments in which the container exited by itself: the algorithm
\* returned, raised or crashed
ExitedEnvironments ==
    {e \in Environments : e.mkdtemp = "ok" /\ e.create = "ok"
                            /\ e.wait \in {"exit0", "exit1"}}

ContainerStarted == args.mkdtemp = "ok" /\ args.create = "ok"

\* C27: a failed ExecutionResult carries an error that is neither None nor
\* empty; its metrics are the empty ones when the failure came before the
\* container started and the ones collected from the container otherwise.
C27_FailuresCarryErrorAndCollectedMetrics ==
    (result # <<>> /\ result[1].success = FALSE) =>
        /\ result[1].error # None
        /\ result[1].error # Str("")
        /\ result[1].resource_metrics =
              IF ContainerStarted THEN collect_resource_metrics(args)
              ELSE empty_metrics

\* the fields _monitor_execution reads by index
ExpectedFields == {"success", "result", "execution_time"}

\* the last stdout line is absent, is no JSON, or is JSON without the fields
\* the result is built from
UnusablePayload(stdout) ==
    LET parsed == json_loads(last_line(stdout)) IN
      IF parsed.type = "dict" THEN ~ (ExpectedFields \subseteq DOMAIN parsed.d)
      ELSE TRUE

\* C28: when the container exited and the last stdout line is absent, no JSON
\* or lacks the expected fields, the call returns a failure whose error is the
\* parse failure.
C28_UnusablePayloadIsParseFailure ==
    (result # <<>> /\ ContainerStarted /\ args.wait \in {"exit0", "exit1"}
       /\ UnusablePayload(args.stdout)) =>
        /\ result[1].success = FALSE
        /\ result[1].error = Str("Failed to parse execution result")

\* C29: a call in which containers.run raised has called it twice before
\* returning the failure; every other call has called it at most once.
C29_CreationRetriedOnce ==
    result # <<>> =>
        IF args.mkdtemp = "ok" /\ args.create = "raises"
        THEN local[1].runs = 2
        ELSE local[1].runs <= 1

\* what send_error says for a protocol error: a type the gateway does not
\* know, a request without its fields, a stop for a session it does not hold
ProtocolErrors ==
    {"Unknown message type", "Missing required fields", "Session not found"}

\* C24: an ERROR message sent to a client reports a protocol error; whatever
\* happens in the sandbox is reported by the completion message of the
\* request.
C24_ErrorOnlyForProtocolErrors ==
    \A c \in Clients : \A k \in 1..Len(outbox[c]) :
        outbox[c][k].type = "ERROR" => outbox[c][k].detail \in ProtocolErrors

\* C30: while a container of a benchmark or testing request exists, it is
\* registered in active_containers under the session id of the request, the
\* key handle_stop_execution passes to stop_execution.
C30_ContainerKeyedBySessionId ==
    (call.container # 0 /\ pc[call.owner] \in {"bench_run", "test_run"}) =>
        /\ PlainKey(frame[call.owner].sid) \in DOMAIN active_containers
        /\ active_containers[PlainKey(frame[call.owner].sid)] = call.container

\* C25: the step in which the gateway reads a frame that is no JSON sends an
\* ERROR message to the client that sent the frame.
C25_MalformedFrameGetsError ==
    [][\A c \in Clients :
          handle_client_not_json(c) =>
              /\ outbox'[c] # <<>>
              /\ outbox'[c][Len(outbox'[c])].type = "ERROR"]_vars

\* C31: for a history of four or five points the detector answers whether the
\* mean of the last three times exceeds 1.2 times the mean of the one or two
\* times before them (histories where the two sides are equal are left to
\* the rounding).
C31_RegressionOnShortHistory ==
    (result # <<>> /\ Len(args) \in {4, 5}) =>
        LET recent == last_slice(args, 3)
            prior == SubSeq(args, 1, Len(args) - 3)
            r == seq_sum(recent) * Len(prior) * 5
            o == seq_sum(prior) * Len(recent) * 6
        IN r # o => (result[1] = (r > o))

\* C32: every event handed to _handle_analytics_update has been broadcast to
\* the clients or has its broadcast scheduled.
C32_EveryEventIsBroadcast ==
    Len(local.handed) = Len(local.tasks) + Len(local.broadcasts)

StartedTypes == {"EXECUTION_STARTED", "BENCHMARK_STARTED", "TESTING_STARTED"}

\* the terminal messages of the request whose started message is t
TerminalTypes(t) ==
    CASE t = "EXECUTION_STARTED" -> {"EXECUTION_COMPLETED", "ERROR"}
      [] t = "BENCHMARK_STARTED" -> {"BENCHMARK_COMPLETED", "ERROR"}
      [] t = "TESTING_STARTED" -> {"TESTING_COMPLETED", "ERROR"}

\* the started message of the request of client c has been sent
StartedSent(c) == outbox[c] # <<>> /\ outbox[c][1].type \in StartedTypes

\* the positions of the terminal messages sent to c for that request
Terminals(c) ==
    {k \in 2..Len(outbox[c]) :
        /\ outbox[c][k].type \in TerminalTypes(outbox[c][1].type)
        /\ outbox[c][k].sessionId = outbox[c][1].sessionId}

\* C33: once the started message of a request is sent, a terminal message
\* for the same session id follows; there is never more than one; and when
\* the handler ends after it the session id is not in the registry.
C33_StartedRequestEndsOnce ==
    /\ \A c \in Clients : StartedSent(c) ~> (Terminals(c) # {})
    /\ [](\A c \in Clients :
             StartedSent(c) => Cardinality(Terminals(c)) <= 1)
    /\ [][\A c \in Clients :
             (StartedSent(c) /\ Terminals(c) # {} /\ outbox'[c] = <<>>) =>
                 active_sessions'[outbox[c][1].sessionId] = NoSession]_vars

C33_Witness ==
    \E c \in Clients : StartedSent(c) /\ Terminals(c) # {}

\* C34: between the started message of a request and its terminal message
\* the registry holds a record for the session id of the request, and the
\* record names the client that sent the request.
C34_RunningSessionIsRegisteredToItsClient ==
    \A c \in Clients :
        (StartedSent(c) /\ Terminals(c) = {} /\ pc[c] # "closing" /\ up) =>
            active_sessions[outbox[c][1].sessionId].client_id = c

\* the task of client c reads a STOP_EXECUTION frame for a session whose
\* record names another client
ForeignStop(c) ==
    /\ Reads(c, "STOP_EXECUTION")
    /\ active_sessions[Head(inbox[c]).sessionId] # NoSession
    /\ active_sessions[Head(inbox[c]).sessionId].client_id # c

\* C35: a STOP_EXECUTION from a client that the record of the session does
\* not name leaves the registry and the sandbox as they are.
C35_OnlyOwnerCancels ==
    [][\A c \in Clients :
          (ForeignStop(c) /\ handle_stop_execution(c)) =>
              /\ active_sessions' = active_sessions
              /\ active_containers' = active_containers
              /\ docker' = docker]_vars

\* the frame the task of client c is about to read is one the gateway
\* rejects: an unknown type, an EXECUTE_ALGORITHM without sessionId,
\* algorithmCode or testData, a PERFORMANCE_BENCHMARK or RUN_TESTS without
\* sessionId or algorithmCode, a STOP_EXECUTION for an id not registered
RejectedFrame(c) ==
    /\ up /\ loop = NoClient /\ pc[c] = "idle" /\ inbox[c] # <<>>
    /\ LET m == Head(inbox[c]) IN
         \/ m.type = UnknownType.type
         \/ /\ m.type = "EXECUTE_ALGORITHM"
            /\ \E f \in {"sessionId", "algorithmCode", "testData"} :
                  ~ has_field(m, f)
         \/ /\ m.type \in {"PERFORMANCE_BENCHMARK", "RUN_TESTS"}
            /\ \E f \in {"sessionId", "algorithmCode"} : ~ has_field(m, f)
         \/ /\ m.type = "STOP_EXECUTION"
            /\ active_sessions[m.sessionId] = NoSession

\* C36: the step that reads a rejected frame from an open connection sends
\* one ERROR message and nothing else, and leaves the registry, the
\* containers and the analytics history as they are.
C36_RejectionChangesNothing ==
    [][\A c \in Clients :
          (RejectedFrame(c) /\ conn[c] = "open" /\ inbox'[c] # inbox[c]) =>
              /\ Len(outbox'[c]) = 1
              /\ outbox'[c][1].type = "ERROR"
              /\ active_sessions' = active_sessions
              /\ active_containers' = active_containers
              /\ docker' = docker
              /\ performance_history' = performance_history
              /\ algorithm_trends' = algorithm_trends]_vars

\* a request without its fields was rejected while another session is
\* registered
C36_Witness ==
    \E c \in Clients :
        /\ outbox[c] = <<Msg("ERROR", "s1", "Missing required fields")>>
        /\ \E sid \in SessionIds : active_sessions[sid] # NoSession

\* the step of client c's handler that follows the return of
\* execute_algorithm
ReturnStep(c) == pc[c] \in {"exec_ret", "bench_ret"} /\ pc'[c] # pc[c]

C38_GlobalHistoryWithinAlgorithmHistories ==
    \A k \in 1..Len(performance_history) :
        LET p == performance_history[k] IN
          /\ p.algorithm_name \in DOMAIN algorithm_trends
          /\ \E j \in 1..Len(algorithm_trends[p.algorithm_name]) :
                algorithm_trends[p.algorithm_name][j] = p

\* the global history has evicted points, and so has the history of an
\* algorithm of which the global history still holds a point
C38_Witness ==
    /\ Len(added) > max_history
    /\ \E k \in 1..Len(performance_history) :
          Len(AddedFor(performance_history[k].algorithm_name)) > max_history

\* C39: the fit returned for at least three observations has an R^2 between
\* 0 and 1 and the label of a candidate that was fitted.
C39_RSquaredInUnitIntervalAndLabelFitted ==
    FitCall =>
        /\ ~ result[1].r_squared.neg
        /\ bn_cmp(result[1].r_squared.num, result[1].r_squared.den) <= 0
        /\ \E k \in Fitted : result[1].best_fit = complexity_functions[k]

\* C40: a call of get_security_report leaves the active processes and the
\* recorded violations as they were and terminates no process.
C40_ReportIsReadOnly ==
    [][get_security_report =>
          /\ local'.active_processes = local.active_processes
          /\ local'.violations = local.violations
          /\ local'.terminated = local.terminated]_vars

====
